---- MODULE Spec2Model ----
(***************************************************************************)
(* Model of the BH1750 ambient light sensor driver (src/src/bh1750.c).     *)
(*                                                                         *)
(* The driver is a non-blocking command sequencer: a public function       *)
(* validates its arguments and the instance state, stores the caller's     *)
(* completion callback and hands one request to the injected transport     *)
(* (I2C write, I2C read or timer).  The transport later invokes the        *)
(* continuation the driver passed with the request; the continuation       *)
(* either issues the next request or ends the sequence through             *)
(* execute_complete_cb.                                                    *)
(*                                                                         *)
(* Every C function is an operator on the instance record that returns     *)
(* the instance after the call together with the transport requests it     *)
(* issued and the user callbacks it invoked, in program order.  The        *)
(* actions of the state machine apply these operators.                     *)
(***************************************************************************)
EXTENDS Integers, Sequences, FiniteSets, TLC

(***************************************************************************)
(* Bounds of the model.                                                    *)
(***************************************************************************)
\* Public calls that return OK in one behaviour.
MaxCalls == 4
\* Transport requests outstanding at the same time.
MaxPending == 2

(***************************************************************************)
(* Program constants.                                                      *)
(***************************************************************************)
BH1750_I2C_ADDR_ADDR_LOW == 35
BH1750_I2C_ADDR_ADDR_HIGH == 92
BH1750_MAX_L_RES_MEAS_TIME_MS == 24
BH1750_MAX_H_RES_MEAS_TIME_MS == 180
BH1750_POWER_DOWN_CMD == 0
BH1750_POWER_ON_CMD == 1
BH1750_RESET_CMD == 7
BH1750_START_CONTINUOUS_MEAS_H_RES_CMD == 16
BH1750_START_CONTINUOUS_MEAS_H_RES2_CMD == 17
BH1750_START_CONTINUOUS_MEAS_L_RES_CMD == 19
BH1750_ONE_TIME_MEAS_H_RES_CMD == 32
BH1750_ONE_TIME_MEAS_H_RES2_CMD == 33
BH1750_ONE_TIME_MEAS_L_RES_CMD == 35
BH1750_SET_MTREG_HIGH_BIT_CMD == 64
BH1750_SET_MTREG_LOW_BIT_CMD == 96
BH1750_MIN_MEAS_TIME == 31
BH1750_MAX_MEAS_TIME == 254
BH1750_DEFAULT_MEAS_TIME == 69

\* BH1750MeasMode
BH1750_MEAS_MODE_H_RES == 0
BH1750_MEAS_MODE_H_RES2 == 1
BH1750_MEAS_MODE_L_RES == 2

\* BH1750_I2CResultCode
BH1750_I2C_RESULT_CODE_OK == 0
BH1750_I2C_RESULT_CODE_ERR == 1

\* BH1750ResultCode, by name.  BUSY is used by bh1750.c.
BH1750_RESULT_CODE_OK == "OK"
BH1750_RESULT_CODE_INVALID_ARG == "INVALID_ARG"
BH1750_RESULT_CODE_OUT_OF_MEMORY == "OUT_OF_MEMORY"
BH1750_RESULT_CODE_IO_ERR == "IO_ERR"
BH1750_RESULT_CODE_DRIVER_ERR == "DRIVER_ERR"
BH1750_RESULT_CODE_INVALID_USAGE == "INVALID_USAGE"
BH1750_RESULT_CODE_BUSY == "BUSY"

\* The null pointer, for callbacks and output locations.
NULL == "NULL"

\* The null pointer to a structure (an instance, a configuration).
NullStruct == [null |-> TRUE]

IsNull(p) == "null" \in DOMAIN p

(***************************************************************************)
(* IEEE-754 binary32 arithmetic on positive values, round to nearest even. *)
(* A value is the record [m, e] standing for m * 2^e with                  *)
(* 2^23 <= m < 2^24, or m = 0 for zero.  All intermediate integers stay    *)
(* below 2^31.                                                             *)
(***************************************************************************)
Pow2(n) == 2 ^ n
F32_MANT_LO == Pow2(23)
F32_MANT_HI == Pow2(24)

RECURSIVE F32Norm(_, _)
F32Norm(m, e) ==
    IF m = 0 THEN [m |-> 0, e |-> 0]
    ELSE IF m < F32_MANT_LO THEN F32Norm(m * 2, e - 1)
    ELSE [m |-> m, e |-> e]

\* (float)n for an integer 0 <= n < 2^24: exact.
F32FromInt(n) == F32Norm(n, 0)

\* Round the quotient q with remainder information to nearest even:
\* cmp is -1, 0, 1 as the discarded part is below, at or above one half.
F32Round(q, cmp, e) ==
    LET up == (cmp > 0) \/ (cmp = 0 /\ q % 2 = 1)
        r == IF up THEN q + 1 ELSE q
    IN  IF r = F32_MANT_HI THEN [m |-> F32_MANT_LO, e |-> e + 1]
        ELSE [m |-> r, e |-> e]

Cmp(a, b) == IF a < b THEN -1 ELSE IF a = b THEN 0 ELSE 1

\* Long division, one quotient bit per step: the pair <<quotient, remainder>>
\* of (r * 2^k) / d, given the quotient q so far.
RECURSIVE DivBits(_, _, _, _)
DivBits(q, r, d, k) ==
    IF k = 0 THEN <<q, r>>
    ELSE DivBits(2 * q + ((2 * r) \div d), (2 * r) % d, d, k - 1)

\* a / b in binary32.
F32Div(a, b) ==
    IF a.m = 0 THEN [m |-> 0, e |-> 0]
    ELSE LET k == IF a.m >= b.m THEN 23 ELSE 24
             qr == DivBits(a.m \div b.m, a.m % b.m, b.m, k)
         IN  F32Round(qr[1], Cmp(2 * qr[2], b.m), a.e - b.e - k)

\* a * b in binary32: the 48-bit product of the mantissas in 12-bit limbs.
F32Mul(a, b) ==
    IF a.m = 0 \/ b.m = 0 THEN [m |-> 0, e |-> 0]
    ELSE LET L == Pow2(12)
             a1 == a.m \div L
             a0 == a.m % L
             b1 == b.m \div L
             b0 == b.m % L
             cross == a1 * b0 + a0 * b1
             losum == (cross % L) * L + a0 * b0
             lo == losum % F32_MANT_HI
             hi == a1 * b1 + (cross \div L) + (losum \div F32_MANT_HI)
         IN  IF hi >= F32_MANT_LO
             THEN F32Round(hi, Cmp(lo, F32_MANT_LO), a.e + b.e + 24)
             ELSE F32Round(2 * hi + (lo \div F32_MANT_LO),
                           Cmp(lo % F32_MANT_LO, Pow2(22)), a.e + b.e + 23)

\* lroundf: nearest integer, halfway cases away from zero.
lroundf(x) ==
    IF x.m = 0 THEN 0
    ELSE IF x.e >= 0 THEN x.m * Pow2(x.e)
    ELSE IF x.e < -24 THEN 0
    ELSE LET d == Pow2(-x.e)
         IN  (x.m \div d) + (IF 2 * (x.m % d) >= d THEN 1 ELSE 0)

\* ceilf, as an integer.
ceilf(x) ==
    IF x.m = 0 THEN 0
    ELSE IF x.e >= 0 THEN x.m * Pow2(x.e)
    ELSE IF x.e <= -24 THEN 1
    ELSE LET d == Pow2(-x.e)
         IN  (x.m \div d) + (IF x.m % d > 0 THEN 1 ELSE 0)

\* 0.8333333f: the binary32 nearest to the decimal literal.
BH1750_CONVERSION_MAGIC == [m |-> 13981013, e |-> -24]

(***************************************************************************)
(* Argument validation and the register codec.                             *)
(***************************************************************************)
is_valid_i2c_addr(i2c_addr) ==
    (i2c_addr = BH1750_I2C_ADDR_ADDR_LOW) \/ (i2c_addr = BH1750_I2C_ADDR_ADDR_HIGH)

is_valid_meas_mode(meas_mode) ==
    \/ meas_mode = BH1750_MEAS_MODE_H_RES
    \/ meas_mode = BH1750_MEAS_MODE_H_RES2
    \/ meas_mode = BH1750_MEAS_MODE_L_RES

is_valid_meas_time(meas_time) ==
    (meas_time >= BH1750_MIN_MEAS_TIME) /\ (meas_time <= BH1750_MAX_MEAS_TIME)

\* (bytes[0] << 8) | bytes[1]
two_big_endian_bytes_to_uint16(bytes) == bytes[1] * 256 + bytes[2]

\* meas_time >> 5
get_three_msb_of_meas_time(meas_time) == meas_time \div 32

\* meas_time & 0x0F: a mask one bit short.
get_five_lsb_of_meas_time_short_mask(meas_time) == meas_time % 16

\* meas_time & 0x1F
get_five_lsb_of_meas_time(meas_time) == meas_time % 32

get_start_cont_meas_cmd_code(meas_mode) ==
    CASE meas_mode = BH1750_MEAS_MODE_H_RES -> BH1750_START_CONTINUOUS_MEAS_H_RES_CMD
      [] meas_mode = BH1750_MEAS_MODE_H_RES2 -> BH1750_START_CONTINUOUS_MEAS_H_RES2_CMD
      [] meas_mode = BH1750_MEAS_MODE_L_RES -> BH1750_START_CONTINUOUS_MEAS_L_RES_CMD
      [] OTHER -> BH1750_START_CONTINUOUS_MEAS_H_RES_CMD

\* get_one_time_meas_cmd_code without the case of BH1750_MEAS_MODE_H_RES2,
\* which falls to the default.
get_one_time_meas_cmd_code_no_h_res2(meas_mode) ==
    CASE meas_mode = BH1750_MEAS_MODE_H_RES -> BH1750_ONE_TIME_MEAS_H_RES_CMD
      [] meas_mode = BH1750_MEAS_MODE_L_RES -> BH1750_ONE_TIME_MEAS_L_RES_CMD
      [] OTHER -> BH1750_ONE_TIME_MEAS_H_RES_CMD

get_one_time_meas_cmd_code(meas_mode) ==
    CASE meas_mode = BH1750_MEAS_MODE_H_RES -> BH1750_ONE_TIME_MEAS_H_RES_CMD
      [] meas_mode = BH1750_MEAS_MODE_H_RES2 -> BH1750_ONE_TIME_MEAS_H_RES2_CMD
      [] meas_mode = BH1750_MEAS_MODE_L_RES -> BH1750_ONE_TIME_MEAS_L_RES_CMD
      [] OTHER -> BH1750_ONE_TIME_MEAS_H_RES_CMD

(***************************************************************************)
(* Measurement conversion and the one-shot timer period.                   *)
(***************************************************************************)
\* The value stored through meas_lx is meaningful only when rc is OK.  This
\* variant converts as if the measurement time were the default one.
convert_raw_meas_to_lx_default_time(self, raw_meas) ==
    IF self.meas_time = 0
    THEN [rc |-> BH1750_RESULT_CODE_INVALID_USAGE, lx |-> 0]
    ELSE LET scale == BH1750_CONVERSION_MAGIC
             raw == F32FromInt(raw_meas)
         IN  CASE self.meas_mode = BH1750_MEAS_MODE_H_RES ->
                    [rc |-> BH1750_RESULT_CODE_OK, lx |-> lroundf(F32Mul(raw, scale))]
               [] self.meas_mode = BH1750_MEAS_MODE_H_RES2 ->
                    [rc |-> BH1750_RESULT_CODE_OK,
                     lx |-> lroundf(F32Mul(raw, F32Div(scale, F32FromInt(2))))]
               [] self.meas_mode = BH1750_MEAS_MODE_L_RES ->
                    [rc |-> BH1750_RESULT_CODE_OK,
                     lx |-> lroundf(F32Mul(raw, BH1750_CONVERSION_MAGIC))]
               [] OTHER -> [rc |-> BH1750_RESULT_CODE_DRIVER_ERR, lx |-> 0]

convert_raw_meas_to_lx(self, raw_meas) ==
    IF self.meas_time = 0
    THEN [rc |-> BH1750_RESULT_CODE_INVALID_USAGE, lx |-> 0]
    ELSE LET scale == F32Mul(BH1750_CONVERSION_MAGIC,
                             F32Div(F32FromInt(69), F32FromInt(self.meas_time)))
             raw == F32FromInt(raw_meas)
         IN  CASE self.meas_mode = BH1750_MEAS_MODE_H_RES ->
                    [rc |-> BH1750_RESULT_CODE_OK, lx |-> lroundf(F32Mul(raw, scale))]
               [] self.meas_mode = BH1750_MEAS_MODE_H_RES2 ->
                    [rc |-> BH1750_RESULT_CODE_OK,
                     lx |-> lroundf(F32Mul(raw, F32Div(scale, F32FromInt(2))))]
               [] self.meas_mode = BH1750_MEAS_MODE_L_RES ->
                    [rc |-> BH1750_RESULT_CODE_OK,
                     lx |-> lroundf(F32Mul(raw, BH1750_CONVERSION_MAGIC))]
               [] OTHER -> [rc |-> BH1750_RESULT_CODE_DRIVER_ERR, lx |-> 0]

\* The delay read_one_time_meas_part_2 asks the timer for.  This variant
\* rounds the delay to the nearest millisecond.
timer_period_rounded(self) ==
    IF self.meas_mode = BH1750_MEAS_MODE_L_RES
    THEN BH1750_MAX_L_RES_MEAS_TIME_MS
    ELSE LET timer_period_multiplier ==
                 F32Div(F32FromInt(self.meas_time), F32FromInt(BH1750_DEFAULT_MEAS_TIME))
         IN  lroundf(F32Mul(F32FromInt(BH1750_MAX_H_RES_MEAS_TIME_MS), timer_period_multiplier))

timer_period(self) ==
    IF self.meas_mode = BH1750_MEAS_MODE_L_RES
    THEN BH1750_MAX_L_RES_MEAS_TIME_MS
    ELSE LET timer_period_multiplier ==
                 F32Div(F32FromInt(self.meas_time), F32FromInt(BH1750_DEFAULT_MEAS_TIME))
         IN  ceilf(F32Mul(F32FromInt(BH1750_MAX_H_RES_MEAS_TIME_MS), timer_period_multiplier))

(***************************************************************************)
(* Effects.  A driver function returns the instance after the call and the *)
(* sequence fx of what it did to the outside, in program order:            *)
(*   i2c_write / i2c_read / start_timer  a request handed to the transport *)
(*                                       with the continuation cb,         *)
(*   end       end_sequence ran,                                           *)
(*   cb        the user's completion callback was invoked,                 *)
(*   store     a value was stored through the caller's meas_lx pointer,    *)
(*   free      the caller's free_instance_memory was invoked.              *)
(***************************************************************************)
Out(self, fx) == [inst |-> self, fx |-> fx]

\* self->i2c_write(&cmd, 1, self->i2c_addr, self->i2c_write_user_data, cb, self)
I2CWrite(self, cmd, cb) ==
    [type |-> "i2c_write", data |-> cmd, i2c_addr |-> self.i2c_addr, cb |-> cb]

\* self->i2c_read(self->read_buf, 2, self->i2c_addr, self->i2c_read_user_data, cb, self)
I2CRead(self, cb) ==
    [type |-> "i2c_read", data |-> 2, i2c_addr |-> self.i2c_addr, cb |-> cb]

\* self->start_timer(period, self->start_timer_user_data, cb, self)
StartTimer(self, period, cb) ==
    [type |-> "start_timer", data |-> period, i2c_addr |-> self.i2c_addr, cb |-> cb]

(***************************************************************************)
(* Sequence bookkeeping.                                                   *)
(***************************************************************************)
\* start_sequence with self->initialized cleared until the sequence is over.
start_sequence_uninitialized(self, cb, user_data) ==
    [self EXCEPT !.seq_cb = cb, !.seq_cb_user_data = user_data, !.is_seq_ongoing = TRUE,
                 !.initialized = FALSE]

start_sequence(self, cb, user_data) ==
    [self EXCEPT !.seq_cb = cb, !.seq_cb_user_data = user_data, !.is_seq_ongoing = TRUE]

end_sequence(self) == [self EXCEPT !.is_seq_ongoing = FALSE]

\* execute_complete_cb with the callback invoked before the sequence is ended.
execute_complete_cb_before_end(self, rc) ==
    Out(end_sequence(self),
        (IF self.seq_cb # NULL
         THEN <<[type |-> "cb", cb |-> self.seq_cb, rc |-> rc,
                 user_data |-> self.seq_cb_user_data,
                 is_seq_ongoing |-> self.is_seq_ongoing]>>
         ELSE <<>>) \o <<[type |-> "end", rc |-> rc]>>)

\* The cb effect records what the callback is given and the busy flag the
\* instance shows while the callback runs.
execute_complete_cb(self, rc) ==
    LET s1 == end_sequence(self)
    IN  Out(s1, <<[type |-> "end", rc |-> rc]>> \o
                (IF s1.seq_cb # NULL
                 THEN <<[type |-> "cb", cb |-> s1.seq_cb, rc |-> rc,
                         user_data |-> s1.seq_cb_user_data,
                         is_seq_ongoing |-> s1.is_seq_ongoing]>>
                 ELSE <<>>))

\* generic_i2c_complete_cb with self->cont_meas_ongoing set when the write
\* succeeded.
generic_i2c_complete_cb_ongoing(self, result_code) ==
    IF result_code = BH1750_I2C_RESULT_CODE_OK
    THEN execute_complete_cb([self EXCEPT !.cont_meas_ongoing = TRUE], BH1750_RESULT_CODE_OK)
    ELSE execute_complete_cb(self, BH1750_RESULT_CODE_IO_ERR)

generic_i2c_complete_cb(self, result_code) ==
    execute_complete_cb(self, IF result_code = BH1750_I2C_RESULT_CODE_OK
                              THEN BH1750_RESULT_CODE_OK
                              ELSE BH1750_RESULT_CODE_IO_ERR)

(***************************************************************************)
(* Commands.                                                               *)
(***************************************************************************)
send_power_on_cmd(self, cb) == <<I2CWrite(self, BH1750_POWER_ON_CMD, cb)>>

send_power_down_cmd(self, cb) == <<I2CWrite(self, BH1750_POWER_DOWN_CMD, cb)>>

send_reset_cmd(self, cb) == <<I2CWrite(self, BH1750_RESET_CMD, cb)>>

send_read_meas_cmd(self, cb) == <<I2CRead(self, cb)>>

send_start_continuous_meas_cmd(self, meas_mode, cb) ==
    <<I2CWrite(self, get_start_cont_meas_cmd_code(meas_mode), cb)>>

send_one_time_meas_cmd(self, meas_mode, cb) ==
    <<I2CWrite(self, get_one_time_meas_cmd_code(meas_mode), cb)>>

\* 0x40 | val, for val <= 7
set_mtreg_high_bit(self, val, cb) ==
    IF val > 7
    THEN [rc |-> BH1750_RESULT_CODE_INVALID_ARG, fx |-> <<>>]
    ELSE [rc |-> BH1750_RESULT_CODE_OK,
          fx |-> <<I2CWrite(self, BH1750_SET_MTREG_HIGH_BIT_CMD + val, cb)>>]

\* 0x60 | val, for val <= 31.  The source returns BH1750_I2C_RESULT_CODE_OK on
\* success, the same number (0) as BH1750_RESULT_CODE_OK.
set_mtreg_low_bit(self, val, cb) ==
    IF val > 31
    THEN [rc |-> BH1750_RESULT_CODE_INVALID_ARG, fx |-> <<>>]
    ELSE [rc |-> BH1750_RESULT_CODE_OK,
          fx |-> <<I2CWrite(self, BH1750_SET_MTREG_LOW_BIT_CMD + val, cb)>>]

(***************************************************************************)
(* Continuations: what the transport invokes when a request completes.     *)
(* user_data is always the instance the request was issued for.            *)
(***************************************************************************)
\* set_meas_time_part_3 with self->initialized set before the result of the
\* write is examined.
set_meas_time_part_3_flag_first(self, result_code) ==
    LET s1 == [self EXCEPT !.initialized = TRUE]
    IN  IF result_code # BH1750_I2C_RESULT_CODE_OK
        THEN execute_complete_cb(s1, BH1750_RESULT_CODE_IO_ERR)
        ELSE execute_complete_cb([s1 EXCEPT !.meas_time = self.meas_time_to_set],
                                 BH1750_RESULT_CODE_OK)

set_meas_time_part_3(self, result_code) ==
    IF result_code # BH1750_I2C_RESULT_CODE_OK
    THEN execute_complete_cb(self, BH1750_RESULT_CODE_IO_ERR)
    ELSE execute_complete_cb([self EXCEPT !.meas_time = self.meas_time_to_set,
                                          !.initialized = TRUE],
                             BH1750_RESULT_CODE_OK)

\* (meas_time & 0x1F) | (three_msb << 5).  This variant takes the result of
\* set_mtreg_low_bit for a failure when it is OK.
set_meas_time_part_2_result_inverted(self, result_code) ==
    IF result_code # BH1750_I2C_RESULT_CODE_OK
    THEN execute_complete_cb(self, BH1750_RESULT_CODE_IO_ERR)
    ELSE LET s1 == [self EXCEPT !.meas_time =
                        (self.meas_time % 32)
                        + get_three_msb_of_meas_time(self.meas_time_to_set) * 32]
             meas_time_five_lsb == get_five_lsb_of_meas_time(s1.meas_time_to_set)
             sent == set_mtreg_low_bit(s1, meas_time_five_lsb, "set_meas_time_part_3")
         IN  IF sent.rc = BH1750_RESULT_CODE_OK
             THEN LET done == execute_complete_cb(s1, BH1750_RESULT_CODE_DRIVER_ERR)
                  IN  Out(done.inst, sent.fx \o done.fx)
             ELSE Out(s1, sent.fx)

set_meas_time_part_2(self, result_code) ==
    IF result_code # BH1750_I2C_RESULT_CODE_OK
    THEN execute_complete_cb(self, BH1750_RESULT_CODE_IO_ERR)
    ELSE LET s1 == [self EXCEPT !.meas_time =
                        (self.meas_time % 32)
                        + get_three_msb_of_meas_time(self.meas_time_to_set) * 32]
             meas_time_five_lsb == get_five_lsb_of_meas_time(s1.meas_time_to_set)
             sent == set_mtreg_low_bit(s1, meas_time_five_lsb, "set_meas_time_part_3")
         IN  IF sent.rc # BH1750_RESULT_CODE_OK
             THEN LET done == execute_complete_cb(s1, BH1750_RESULT_CODE_DRIVER_ERR)
                  IN  Out(done.inst, sent.fx \o done.fx)
             ELSE Out(s1, sent.fx)

\* The return value of set_mtreg_high_bit is ignored.
set_meas_time_part_1(self, meas_time) ==
    LET s1 == [self EXCEPT !.meas_time_to_set = meas_time]
        meas_time_three_msb == get_three_msb_of_meas_time(meas_time)
    IN  Out(s1, set_mtreg_high_bit(s1, meas_time_three_msb, "set_meas_time_part_2").fx)

init_part_2(self, result_code) ==
    IF result_code # BH1750_I2C_RESULT_CODE_OK
    THEN execute_complete_cb(self, BH1750_RESULT_CODE_IO_ERR)
    ELSE set_meas_time_part_1(self, self.meas_time_to_set)

\* self->read_buf holds what the transport read.  This variant of
\* read_meas_final_part hands the result code of the conversion to the
\* callback as it is.
read_meas_final_part_conversion_rc(self, result_code) ==
    IF result_code # BH1750_I2C_RESULT_CODE_OK
    THEN execute_complete_cb(self, BH1750_RESULT_CODE_IO_ERR)
    ELSE LET raw_meas == two_big_endian_bytes_to_uint16(self.read_buf)
             conv == convert_raw_meas_to_lx(self, raw_meas)
         IN  IF conv.rc # BH1750_RESULT_CODE_OK
             THEN execute_complete_cb(self, conv.rc)
             ELSE LET done == execute_complete_cb(self, BH1750_RESULT_CODE_OK)
                  IN  Out(done.inst,
                          <<[type |-> "store", p |-> self.meas_p, lx |-> conv.lx,
                             meas_mode |-> self.meas_mode, meas_time |-> self.meas_time]>>
                          \o done.fx)

read_meas_final_part(self, result_code) ==
    IF result_code # BH1750_I2C_RESULT_CODE_OK
    THEN execute_complete_cb(self, BH1750_RESULT_CODE_IO_ERR)
    ELSE LET raw_meas == two_big_endian_bytes_to_uint16(self.read_buf)
             conv == convert_raw_meas_to_lx(self, raw_meas)
         IN  IF conv.rc # BH1750_RESULT_CODE_OK
             THEN execute_complete_cb(self, BH1750_RESULT_CODE_DRIVER_ERR)
             ELSE LET done == execute_complete_cb(self, BH1750_RESULT_CODE_OK)
                  IN  Out(done.inst,
                          <<[type |-> "store", p |-> self.meas_p, lx |-> conv.lx,
                             meas_mode |-> self.meas_mode, meas_time |-> self.meas_time]>>
                          \o done.fx)

\* start_continuous_measurement_part_2 with self->cont_meas_ongoing set
\* whatever the result of the write.
start_continuous_measurement_part_2_always(self, result_code) ==
    execute_complete_cb([self EXCEPT !.cont_meas_ongoing = TRUE],
                        IF result_code = BH1750_I2C_RESULT_CODE_OK
                        THEN BH1750_RESULT_CODE_OK
                        ELSE BH1750_RESULT_CODE_IO_ERR)

start_continuous_measurement_part_2(self, result_code) ==
    IF result_code = BH1750_I2C_RESULT_CODE_OK
    THEN execute_complete_cb([self EXCEPT !.cont_meas_ongoing = TRUE], BH1750_RESULT_CODE_OK)
    ELSE execute_complete_cb(self, BH1750_RESULT_CODE_IO_ERR)

read_one_time_meas_part_3(self) ==
    Out(self, send_read_meas_cmd(self, "read_meas_final_part"))

\* read_one_time_meas_part_2 without the check of result_code.
read_one_time_meas_part_2_unchecked(self, result_code) ==
    Out(self, <<StartTimer(self, timer_period(self), "read_one_time_meas_part_3")>>)

read_one_time_meas_part_2(self, result_code) ==
    IF result_code # BH1750_I2C_RESULT_CODE_OK
    THEN execute_complete_cb(self, BH1750_RESULT_CODE_IO_ERR)
    ELSE Out(self, <<StartTimer(self, timer_period(self), "read_one_time_meas_part_3")>>)

(***************************************************************************)
(* Public functions.  self is the instance record, or NULL.  The result is *)
(* the return code, the instance after the call and the effects.           *)
(***************************************************************************)
Ret(rc, self, fx) == [rc |-> rc, inst |-> self, fx |-> fx]

Started(o) == Ret(BH1750_RESULT_CODE_OK, o.inst, o.fx)

\* is_valid_init_cfg without the check of the I2C address.
is_valid_init_cfg_any_addr(cfg) ==
    /\ cfg.get_instance_memory # NULL
    /\ cfg.i2c_write # NULL
    /\ cfg.i2c_read # NULL
    /\ cfg.start_timer # NULL

is_valid_init_cfg(cfg) ==
    /\ cfg.get_instance_memory # NULL
    /\ cfg.i2c_write # NULL
    /\ cfg.i2c_read # NULL
    /\ cfg.start_timer # NULL
    /\ is_valid_i2c_addr(cfg.i2c_addr)

\* memory is what cfg->get_instance_memory returns: null, or the storage of
\* the instance with whatever it held before.
bh1750_create(inst_p, cfg, memory) ==
    IF inst_p = NULL \/ IsNull(cfg) \/ ~is_valid_init_cfg(cfg)
    THEN Ret(BH1750_RESULT_CODE_INVALID_ARG, NullStruct, <<>>)
    ELSE LET got == <<[type |-> "get_instance_memory",
                       user_data |-> cfg.get_instance_memory_user_data]>>
         IN  IF IsNull(memory)
             THEN Ret(BH1750_RESULT_CODE_OUT_OF_MEMORY, NullStruct, got)
             ELSE Ret(BH1750_RESULT_CODE_OK,
                      [memory EXCEPT !.i2c_addr = cfg.i2c_addr,
                                     !.cont_meas_ongoing = FALSE,
                                     !.meas_time = 0,
                                     !.initialized = FALSE,
                                     !.is_seq_ongoing = FALSE],
                      got)

\* bh1750_init without the check of self->initialized.
bh1750_init_again(self, cb, user_data) ==
    IF IsNull(self) THEN Ret(BH1750_RESULT_CODE_INVALID_ARG, self, <<>>)
    ELSE LET s1 == start_sequence(self, cb, user_data)
             s2 == [s1 EXCEPT !.meas_time_to_set = BH1750_DEFAULT_MEAS_TIME]
         IN  Ret(BH1750_RESULT_CODE_OK, s2, send_power_on_cmd(s2, "init_part_2"))

bh1750_init(self, cb, user_data) ==
    IF IsNull(self) THEN Ret(BH1750_RESULT_CODE_INVALID_ARG, self, <<>>)
    ELSE IF self.initialized THEN Ret(BH1750_RESULT_CODE_INVALID_USAGE, self, <<>>)
    ELSE LET s1 == start_sequence(self, cb, user_data)
             s2 == [s1 EXCEPT !.meas_time_to_set = BH1750_DEFAULT_MEAS_TIME]
         IN  Ret(BH1750_RESULT_CODE_OK, s2, send_power_on_cmd(s2, "init_part_2"))

bh1750_power_on(self, cb, user_data) ==
    IF IsNull(self) THEN Ret(BH1750_RESULT_CODE_INVALID_ARG, self, <<>>)
    ELSE IF ~self.initialized THEN Ret(BH1750_RESULT_CODE_INVALID_USAGE, self, <<>>)
    ELSE IF self.is_seq_ongoing THEN Ret(BH1750_RESULT_CODE_BUSY, self, <<>>)
    ELSE LET s1 == start_sequence(self, cb, user_data)
         IN  Ret(BH1750_RESULT_CODE_OK, s1, send_power_on_cmd(s1, "generic_i2c_complete_cb"))

\* bh1750_power_down with self->cont_meas_ongoing cleared when the call is
\* accepted.
bh1750_power_down_stops_measuring(self, cb, user_data) ==
    IF IsNull(self) THEN Ret(BH1750_RESULT_CODE_INVALID_ARG, self, <<>>)
    ELSE IF ~self.initialized THEN Ret(BH1750_RESULT_CODE_INVALID_USAGE, self, <<>>)
    ELSE IF self.is_seq_ongoing THEN Ret(BH1750_RESULT_CODE_BUSY, self, <<>>)
    ELSE LET s1 == [start_sequence(self, cb, user_data) EXCEPT !.cont_meas_ongoing = FALSE]
         IN  Ret(BH1750_RESULT_CODE_OK, s1, send_power_down_cmd(s1, "generic_i2c_complete_cb"))

bh1750_power_down(self, cb, user_data) ==
    IF IsNull(self) THEN Ret(BH1750_RESULT_CODE_INVALID_ARG, self, <<>>)
    ELSE IF ~self.initialized THEN Ret(BH1750_RESULT_CODE_INVALID_USAGE, self, <<>>)
    ELSE IF self.is_seq_ongoing THEN Ret(BH1750_RESULT_CODE_BUSY, self, <<>>)
    ELSE LET s1 == start_sequence(self, cb, user_data)
         IN  Ret(BH1750_RESULT_CODE_OK, s1, send_power_down_cmd(s1, "generic_i2c_complete_cb"))

\* bh1750_reset without the check of self->initialized.
bh1750_reset_uninitialized(self, cb, user_data) ==
    IF IsNull(self) THEN Ret(BH1750_RESULT_CODE_INVALID_ARG, self, <<>>)
    ELSE IF self.is_seq_ongoing THEN Ret(BH1750_RESULT_CODE_BUSY, self, <<>>)
    ELSE LET s1 == start_sequence(self, cb, user_data)
         IN  Ret(BH1750_RESULT_CODE_OK, s1, send_reset_cmd(s1, "generic_i2c_complete_cb"))

bh1750_reset(self, cb, user_data) ==
    IF IsNull(self) THEN Ret(BH1750_RESULT_CODE_INVALID_ARG, self, <<>>)
    ELSE IF ~self.initialized THEN Ret(BH1750_RESULT_CODE_INVALID_USAGE, self, <<>>)
    ELSE IF self.is_seq_ongoing THEN Ret(BH1750_RESULT_CODE_BUSY, self, <<>>)
    ELSE LET s1 == start_sequence(self, cb, user_data)
         IN  Ret(BH1750_RESULT_CODE_OK, s1, send_reset_cmd(s1, "generic_i2c_complete_cb"))

\* bh1750_start_continuous_measurement with self->meas_mode stored before the
\* check of self->is_seq_ongoing.
bh1750_start_continuous_measurement_mode_first(self, meas_mode, cb, user_data) ==
    IF IsNull(self) \/ ~is_valid_meas_mode(meas_mode)
    THEN Ret(BH1750_RESULT_CODE_INVALID_ARG, self, <<>>)
    ELSE IF ~self.initialized THEN Ret(BH1750_RESULT_CODE_INVALID_USAGE, self, <<>>)
    ELSE IF self.is_seq_ongoing
    THEN Ret(BH1750_RESULT_CODE_BUSY, [self EXCEPT !.meas_mode = meas_mode], <<>>)
    ELSE LET s1 == start_sequence(self, cb, user_data)
             s2 == [s1 EXCEPT !.meas_mode = meas_mode]
         IN  Ret(BH1750_RESULT_CODE_OK, s2,
                 send_start_continuous_meas_cmd(s2, meas_mode,
                                                "start_continuous_measurement_part_2"))

bh1750_start_continuous_measurement(self, meas_mode, cb, user_data) ==
    IF IsNull(self) \/ ~is_valid_meas_mode(meas_mode)
    THEN Ret(BH1750_RESULT_CODE_INVALID_ARG, self, <<>>)
    ELSE IF ~self.initialized THEN Ret(BH1750_RESULT_CODE_INVALID_USAGE, self, <<>>)
    ELSE IF self.is_seq_ongoing THEN Ret(BH1750_RESULT_CODE_BUSY, self, <<>>)
    ELSE LET s1 == start_sequence(self, cb, user_data)
             s2 == [s1 EXCEPT !.meas_mode = meas_mode]
         IN  Ret(BH1750_RESULT_CODE_OK, s2,
                 send_start_continuous_meas_cmd(s2, meas_mode,
                                                "start_continuous_measurement_part_2"))

\* bh1750_read_continuous_measurement without the check of
\* self->cont_meas_ongoing.
bh1750_read_continuous_measurement_unstarted(self, meas_lx, cb, user_data) ==
    IF IsNull(self) \/ meas_lx = NULL
    THEN Ret(BH1750_RESULT_CODE_INVALID_ARG, self, <<>>)
    ELSE IF ~self.initialized
    THEN Ret(BH1750_RESULT_CODE_INVALID_USAGE, self, <<>>)
    ELSE IF self.is_seq_ongoing THEN Ret(BH1750_RESULT_CODE_BUSY, self, <<>>)
    ELSE LET s1 == start_sequence(self, cb, user_data)
             s2 == [s1 EXCEPT !.meas_p = meas_lx]
         IN  Ret(BH1750_RESULT_CODE_OK, s2, send_read_meas_cmd(s2, "read_meas_final_part"))

bh1750_read_continuous_measurement(self, meas_lx, cb, user_data) ==
    IF IsNull(self) \/ meas_lx = NULL
    THEN Ret(BH1750_RESULT_CODE_INVALID_ARG, self, <<>>)
    ELSE IF ~self.initialized \/ ~self.cont_meas_ongoing
    THEN Ret(BH1750_RESULT_CODE_INVALID_USAGE, self, <<>>)
    ELSE IF self.is_seq_ongoing THEN Ret(BH1750_RESULT_CODE_BUSY, self, <<>>)
    ELSE LET s1 == start_sequence(self, cb, user_data)
             s2 == [s1 EXCEPT !.meas_p = meas_lx]
         IN  Ret(BH1750_RESULT_CODE_OK, s2, send_read_meas_cmd(s2, "read_meas_final_part"))

\* bh1750_read_one_time_measurement with meas_lx and meas_mode validated
\* after the checks of self->initialized and self->is_seq_ongoing.
bh1750_read_one_time_measurement_late_validation(self, meas_mode, meas_lx, cb, user_data) ==
    IF IsNull(self) THEN Ret(BH1750_RESULT_CODE_INVALID_ARG, self, <<>>)
    ELSE IF ~self.initialized THEN Ret(BH1750_RESULT_CODE_INVALID_USAGE, self, <<>>)
    ELSE IF self.is_seq_ongoing THEN Ret(BH1750_RESULT_CODE_BUSY, self, <<>>)
    ELSE IF meas_lx = NULL \/ ~is_valid_meas_mode(meas_mode)
    THEN Ret(BH1750_RESULT_CODE_INVALID_ARG, self, <<>>)
    ELSE LET s1 == start_sequence(self, cb, user_data)
             s2 == [s1 EXCEPT !.meas_p = meas_lx, !.meas_mode = meas_mode]
         IN  Ret(BH1750_RESULT_CODE_OK, s2,
                 send_one_time_meas_cmd(s2, meas_mode, "read_one_time_meas_part_2"))

bh1750_read_one_time_measurement(self, meas_mode, meas_lx, cb, user_data) ==
    IF IsNull(self) \/ meas_lx = NULL \/ ~is_valid_meas_mode(meas_mode)
    THEN Ret(BH1750_RESULT_CODE_INVALID_ARG, self, <<>>)
    ELSE IF ~self.initialized THEN Ret(BH1750_RESULT_CODE_INVALID_USAGE, self, <<>>)
    ELSE IF self.is_seq_ongoing THEN Ret(BH1750_RESULT_CODE_BUSY, self, <<>>)
    ELSE LET s1 == start_sequence(self, cb, user_data)
             s2 == [s1 EXCEPT !.meas_p = meas_lx, !.meas_mode = meas_mode]
         IN  Ret(BH1750_RESULT_CODE_OK, s2,
                 send_one_time_meas_cmd(s2, meas_mode, "read_one_time_meas_part_2"))

bh1750_set_measurement_time_while_measuring(self, meas_time, cb, user_data) ==
    IF IsNull(self) \/ ~is_valid_meas_time(meas_time)
    THEN Ret(BH1750_RESULT_CODE_INVALID_ARG, self, <<>>)
    ELSE IF ~self.initialized
    THEN Ret(BH1750_RESULT_CODE_INVALID_USAGE, self, <<>>)
    ELSE IF self.is_seq_ongoing THEN Ret(BH1750_RESULT_CODE_BUSY, self, <<>>)
    ELSE Started(set_meas_time_part_1(start_sequence(self, cb, user_data), meas_time))

bh1750_set_measurement_time(self, meas_time, cb, user_data) ==
    IF IsNull(self) \/ ~is_valid_meas_time(meas_time)
    THEN Ret(BH1750_RESULT_CODE_INVALID_ARG, self, <<>>)
    ELSE IF ~self.initialized \/ self.cont_meas_ongoing
    THEN Ret(BH1750_RESULT_CODE_INVALID_USAGE, self, <<>>)
    ELSE IF self.is_seq_ongoing THEN Ret(BH1750_RESULT_CODE_BUSY, self, <<>>)
    ELSE Started(set_meas_time_part_1(start_sequence(self, cb, user_data), meas_time))

\* bh1750_destroy without the check of self->is_seq_ongoing.
bh1750_destroy_while_busy(self, free_instance_memory, user_data) ==
    IF IsNull(self) THEN Ret(BH1750_RESULT_CODE_INVALID_ARG, self, <<>>)
    ELSE Ret(BH1750_RESULT_CODE_OK, self,
             IF free_instance_memory # NULL
             THEN <<[type |-> "free", inst_mem |-> "instance_memory",
                     user_data |-> user_data]>>
             ELSE <<>>)

bh1750_destroy(self, free_instance_memory, user_data) ==
    IF IsNull(self) THEN Ret(BH1750_RESULT_CODE_INVALID_ARG, self, <<>>)
    ELSE IF self.is_seq_ongoing THEN Ret(BH1750_RESULT_CODE_BUSY, self, <<>>)
    ELSE Ret(BH1750_RESULT_CODE_OK, self,
             IF free_instance_memory # NULL
             THEN <<[type |-> "free", inst_mem |-> "instance_memory",
                     user_data |-> user_data]>>
             ELSE <<>>)

(***************************************************************************)
(* The device: the BH1750 registers the commands act on.  mtreg is the     *)
(* measurement time register (69 after power up), started_mode the mode of *)
(* the last start-continuous-measurement command the device received.      *)
(***************************************************************************)
DeviceWrite(d, cmd) ==
    IF cmd >= BH1750_SET_MTREG_HIGH_BIT_CMD /\ cmd < BH1750_SET_MTREG_HIGH_BIT_CMD + 8
    THEN [d EXCEPT !.mtreg = (d.mtreg % 32) + (cmd - BH1750_SET_MTREG_HIGH_BIT_CMD) * 32]
    ELSE IF cmd >= BH1750_SET_MTREG_LOW_BIT_CMD /\ cmd < BH1750_SET_MTREG_LOW_BIT_CMD + 32
    THEN [d EXCEPT !.mtreg = (d.mtreg \div 32) * 32 + (cmd - BH1750_SET_MTREG_LOW_BIT_CMD)]
    ELSE IF cmd = BH1750_START_CONTINUOUS_MEAS_H_RES_CMD
    THEN [d EXCEPT !.started_mode = BH1750_MEAS_MODE_H_RES]
    ELSE IF cmd = BH1750_START_CONTINUOUS_MEAS_H_RES2_CMD
    THEN [d EXCEPT !.started_mode = BH1750_MEAS_MODE_H_RES2]
    ELSE IF cmd = BH1750_START_CONTINUOUS_MEAS_L_RES_CMD
    THEN [d EXCEPT !.started_mode = BH1750_MEAS_MODE_L_RES]
    ELSE d

(***************************************************************************)
(* The inputs the environment draws from.                                  *)
(***************************************************************************)
\* Completion callbacks a caller passes.
CbArgs == {NULL, "complete_cb"}
\* Measurement modes: the three of BH1750MeasMode and one that is none of them.
ModeArgs == {BH1750_MEAS_MODE_H_RES, BH1750_MEAS_MODE_H_RES2, BH1750_MEAS_MODE_L_RES, 3}
ValidModes == {m \in ModeArgs : is_valid_meas_mode(m)}
\* Measurement times: the low end of the range, an inner value, and the two
\* values next to the range.
TimeArgs == {30, 31, 64, 255}
ValidTimes == {t \in TimeArgs : is_valid_meas_time(t)}
\* Deallocators.
FreeArgs == {NULL, "free_instance_memory"}
\* The two bytes a successful read delivers.
ReadData == {<<131, 144>>}
\* I2C transaction results.
I2CResults == {BH1750_I2C_RESULT_CODE_OK, BH1750_I2C_RESULT_CODE_ERR}

\* A valid configuration, as populate_default_init_cfg of the tests builds it.
DefaultInitCfg ==
    [get_instance_memory |-> "get_instance_memory",
     get_instance_memory_user_data |-> "gim_user_data",
     i2c_write |-> "i2c_write", i2c_read |-> "i2c_read", start_timer |-> "start_timer",
     i2c_addr |-> BH1750_I2C_ADDR_ADDR_LOW]

\* The storage the allocator returns, zeroed as the tests zero it.  Apart from
\* the fields bh1750_create sets, the driver reads no field before writing it.
InstanceMemory ==
    [seq_cb |-> NULL, seq_cb_user_data |-> 0, meas_p |-> NULL, i2c_addr |-> 0,
     meas_time_to_set |-> 0, read_buf |-> <<0, 0>>, cont_meas_ongoing |-> FALSE,
     meas_mode |-> 0, meas_time |-> 0, initialized |-> FALSE, is_seq_ongoing |-> FALSE]

(***************************************************************************)
(* State.                                                                  *)
(*   inst     the instance (struct BH1750Struct)                           *)
(*   alive    FALSE once bh1750_destroy has returned OK                    *)
(*   pending  the transport requests issued and not yet completed          *)
(*   dev      the device registers                                         *)
(*   started  how many public calls have returned OK and started a         *)
(*            sequence; call k passes k as user data                       *)
(*   ended    how many times the terminal action of a sequence has run     *)
(*   owed     the user data of the started calls that passed a callback    *)
(*            and have not been called back yet                            *)
(*   stray    the user data that came back in a callback that was not owed *)
(*   freed    how many times the deallocator was invoked                   *)
(*   last     the step that led to this state: a call (rc is what it       *)
(*            returned) or a completion (result_code is what the transport *)
(*            reported; seq is the public function that started the        *)
(*            sequence the completed request belongs to and given what     *)
(*            that call was given), its effects,                           *)
(*            self: the instance as the step found it, and in_cb: the call *)
(*            came right after a completion callback, as a call made from  *)
(*            inside it does                                               *)
(***************************************************************************)
VARIABLES inst, alive, pending, dev, started, ended, owed, stray, freed, last

vars == <<inst, alive, pending, dev, started, ended, owed, stray, freed, last>>

IsRequest(f) == f.type \in {"i2c_write", "i2c_read", "start_timer"}

Requests(fx) == SelectSeq(fx, IsRequest)

IsCb(f) == f.type = "cb"

Callbacks(fx) == SelectSeq(fx, IsCb)

IsEnd(f) == f.type = "end"

IsStore(f) == f.type = "store"

IsFree(f) == f.type = "free"

\* The user data the callbacks of fx were given.
CalledBack(fx) == {Callbacks(fx)[k].user_data : k \in 1..Len(Callbacks(fx))}

\* The callbacks of fx beyond one per user data.
Repeated(fx) ==
    {u \in CalledBack(fx) : Len(SelectSeq(fx, LAMBDA f : IsCb(f) /\ f.user_data = u)) > 1}

\* The arguments of a call; NoArg where the function has no such parameter.
NoArg == -1

\* The requests of fx, each with the public function that started the
\* sequence it belongs to and what that call was given.
Tagged(fx, op, given) ==
    [k \in 1..Len(Requests(fx)) |->
        [type |-> Requests(fx)[k].type, data |-> Requests(fx)[k].data,
         i2c_addr |-> Requests(fx)[k].i2c_addr, cb |-> Requests(fx)[k].cb, seq |-> op,
         given |-> given]]

\* What a bh1750_set_measurement_time call was given: the measurement time
\* to set, and the measurement time the instance kept when the call was
\* made; what a bh1750_read_one_time_measurement call was given: the
\* measurement mode.  Nothing is kept of the other calls.
Given(op, args, self) ==
    IF op = "bh1750_set_measurement_time"
    THEN [meas_time |-> args.meas_time, old_meas_time |-> self.meas_time,
          meas_mode |-> NoArg]
    ELSE IF op = "bh1750_read_one_time_measurement"
    THEN [meas_time |-> NoArg, old_meas_time |-> NoArg, meas_mode |-> args.meas_mode]
    ELSE [meas_time |-> NoArg, old_meas_time |-> NoArg, meas_mode |-> NoArg]

RemoveAt(q, i) == SubSeq(q, 1, i - 1) \o SubSeq(q, i + 1, Len(q))

NoArgs == [self |-> "inst", meas_mode |-> NoArg, meas_time |-> NoArg, meas_lx |-> NULL,
           cb |-> NULL, free |-> NULL]

\* The user data the next call passes.
NextUserData == started + 1

Init ==
    LET made == bh1750_create("inst_p", DefaultInitCfg, InstanceMemory)
    IN  /\ inst = made.inst
        /\ alive = TRUE
        /\ pending = <<>>
        /\ dev = [mtreg |-> BH1750_DEFAULT_MEAS_TIME, started_mode |-> NoArg]
        /\ started = 0
        /\ ended = 0
        /\ owed = {}
        /\ stray = {}
        /\ freed = 0
        /\ last = [kind |-> "create", op |-> "bh1750_create", seq |-> "none",
                   given |-> Given("bh1750_create", NoArgs, InstanceMemory), rc |-> made.rc,
                   result_code |-> NoArg, args |-> NoArgs, fx |-> made.fx,
                   self |-> InstanceMemory, in_cb |-> FALSE]

\* The bookkeeping of a step with effects fx, where owing is the user data
\* for which the step came to owe a callback.
Account(fx, owing) ==
    /\ ended' = ended + Len(SelectSeq(fx, IsEnd))
    /\ freed' = freed + Len(SelectSeq(fx, IsFree))
    /\ owed' = (owed \cup owing) \ CalledBack(fx)
    /\ stray' = stray \cup (CalledBack(fx) \ (owed \cup owing)) \cup Repeated(fx)

\* The step was a public call that returned an error.
Rejected(step) == step.kind = "call" /\ step.rc # BH1750_RESULT_CODE_OK

\* A public call with result r.  self is "inst" when the caller passed the
\* instance and NULL when it passed a null pointer.  Every function but
\* bh1750_destroy starts a sequence when it returns OK.  A caller whose call
\* was rejected goes on with a call that is accepted or lets a request
\* complete: the behaviours have no two rejected calls in a row.
Call(op, args, r) ==
    LET starts == r.rc = BH1750_RESULT_CODE_OK /\ op # "bh1750_destroy"
    IN  /\ alive
        /\ started < MaxCalls
        /\ ~(Rejected(last) /\ r.rc # BH1750_RESULT_CODE_OK)
        /\ Len(pending) + Len(Requests(r.fx)) <= MaxPending
        /\ inst' = IF args.self = NULL THEN inst ELSE r.inst
        /\ alive' = ~(op = "bh1750_destroy" /\ r.rc = BH1750_RESULT_CODE_OK)
        /\ pending' = pending \o Tagged(r.fx, op, Given(op, args, inst))
        /\ started' = IF starts THEN started + 1 ELSE started
        /\ Account(r.fx, IF starts /\ args.cb # NULL THEN {NextUserData} ELSE {})
        /\ last' = [kind |-> "call", op |-> op, seq |-> op,
                    given |-> Given(op, args, inst),
                    rc |-> r.rc,
                    result_code |-> NoArg,
                    args |-> args, fx |-> r.fx, self |-> inst,
                    in_cb |-> (last.kind = "done" /\ Callbacks(last.fx) # <<>>)]
        /\ UNCHANGED dev

Self(a) == IF a = NULL THEN NullStruct ELSE inst

\* The argument lists of the calls: every valid combination with a callback,
\* and every list with one argument null or invalid (no callback, a null
\* instance, a null result pointer, a measurement mode or time out of range)
\* among valid ones.
ValidArgs(modes, times, lxs) ==
    {[NoArgs EXCEPT !.meas_mode = m, !.meas_time = t, !.meas_lx = p,
                    !.cb = "complete_cb"] : m \in modes, t \in times, p \in lxs}

OneInvalidArg(modes, times, lxs, valid) ==
    {[valid EXCEPT !.cb = cb] : cb \in CbArgs}
        \cup {[valid EXCEPT !.self = NULL]}
        \cup {[valid EXCEPT !.meas_mode = m] : m \in modes}
        \cup {[valid EXCEPT !.meas_time = t] : t \in times}
        \cup {[valid EXCEPT !.meas_lx = p] : p \in lxs}

PlainArgs == [NoArgs EXCEPT !.cb = "complete_cb"]

SimpleArgs == ValidArgs({NoArg}, {NoArg}, {NULL}) \cup OneInvalidArg({}, {}, {}, PlainArgs)

ModeArgSets ==
    ValidArgs(ValidModes, {NoArg}, {NULL})
        \cup OneInvalidArg(ModeArgs \ ValidModes, {}, {},
                           [PlainArgs EXCEPT !.meas_mode = BH1750_MEAS_MODE_H_RES])

ReadContinuousArgs ==
    ValidArgs({NoArg}, {NoArg}, {"meas_lx"})
        \cup OneInvalidArg({}, {}, {NULL}, [PlainArgs EXCEPT !.meas_lx = "meas_lx"])

ReadOneTimeArgs ==
    ValidArgs(ValidModes, {NoArg}, {"meas_lx"})
        \cup OneInvalidArg(ModeArgs \ ValidModes, {}, {NULL},
                           [PlainArgs EXCEPT !.meas_mode = BH1750_MEAS_MODE_H_RES,
                                             !.meas_lx = "meas_lx"])

TimeArgSets ==
    ValidArgs({NoArg}, ValidTimes, {NULL})
        \cup OneInvalidArg({}, TimeArgs \ ValidTimes, {},
                           [PlainArgs EXCEPT !.meas_time = BH1750_DEFAULT_MEAS_TIME])

DestroyArgs ==
    {[NoArgs EXCEPT !.free = f] : f \in FreeArgs} \cup {[NoArgs EXCEPT !.self = NULL]}

CallInit ==
    \E a \in SimpleArgs :
        /\ Call("bh1750_init", a, bh1750_init(Self(a.self), a.cb, NextUserData))

CallPowerOn ==
    \E a \in SimpleArgs :
        /\ Call("bh1750_power_on", a, bh1750_power_on(Self(a.self), a.cb, NextUserData))

CallPowerDown ==
    \E a \in SimpleArgs :
        /\ Call("bh1750_power_down", a, bh1750_power_down(Self(a.self), a.cb, NextUserData))

CallReset ==
    \E a \in SimpleArgs :
        /\ Call("bh1750_reset", a, bh1750_reset(Self(a.self), a.cb, NextUserData))

CallStartContinuousMeasurement ==
    \E a \in ModeArgSets :
        /\ Call("bh1750_start_continuous_measurement", a,
             bh1750_start_continuous_measurement(Self(a.self), a.meas_mode, a.cb,
                                                 NextUserData))

CallReadContinuousMeasurement ==
    \E a \in ReadContinuousArgs :
        /\ Call("bh1750_read_continuous_measurement", a,
             bh1750_read_continuous_measurement(Self(a.self), a.meas_lx, a.cb,
                                                NextUserData))

CallReadOneTimeMeasurement ==
    \E a \in ReadOneTimeArgs :
        /\ Call("bh1750_read_one_time_measurement", a,
             bh1750_read_one_time_measurement(Self(a.self), a.meas_mode, a.meas_lx, a.cb,
                                              NextUserData))

CallSetMeasurementTime ==
    \E a \in TimeArgSets :
        /\ Call("bh1750_set_measurement_time", a,
             bh1750_set_measurement_time(Self(a.self), a.meas_time, a.cb, NextUserData))

\* After a destroy that returned OK the instance is not used again.
CallDestroy ==
    \E a \in DestroyArgs :
        /\ Call("bh1750_destroy", a, bh1750_destroy(Self(a.self), a.free, "free_user_data"))

(***************************************************************************)
(* Completions.  The transport completes any outstanding request, in any   *)
(* order, and invokes the continuation the driver passed with it.          *)
(***************************************************************************)
Dispatch(cb, self, result_code) ==
    CASE cb = "init_part_2" -> init_part_2(self, result_code)
      [] cb = "set_meas_time_part_2" -> set_meas_time_part_2(self, result_code)
      [] cb = "set_meas_time_part_3" -> set_meas_time_part_3(self, result_code)
      [] cb = "generic_i2c_complete_cb" -> generic_i2c_complete_cb(self, result_code)
      [] cb = "start_continuous_measurement_part_2" ->
             start_continuous_measurement_part_2(self, result_code)
      [] cb = "read_one_time_meas_part_2" -> read_one_time_meas_part_2(self, result_code)
      [] cb = "read_meas_final_part" -> read_meas_final_part(self, result_code)
      [] cb = "read_one_time_meas_part_3" -> read_one_time_meas_part_3(self)

Done(i, result_code, r) ==
    /\ alive
    /\ inst' = r.inst
    /\ alive' = alive
    /\ pending' = RemoveAt(pending, i) \o Tagged(r.fx, pending[i].seq, pending[i].given)
    /\ started' = started
    /\ Account(r.fx, {})
    /\ last' = [kind |-> "done", op |-> pending[i].cb, seq |-> pending[i].seq,
                given |-> pending[i].given, rc |-> "none",
                result_code |-> result_code, args |-> NoArgs, fx |-> r.fx,
                self |-> inst, in_cb |-> FALSE]

\* An I2C write completes; a successful one has reached the device.
I2CWriteDone ==
    \E i \in 1..Len(pending), result_code \in I2CResults :
        /\ pending[i].type = "i2c_write"
        /\ Done(i, result_code, Dispatch(pending[i].cb, inst, result_code))
        /\ dev' = IF result_code = BH1750_I2C_RESULT_CODE_OK
                  THEN DeviceWrite(dev, pending[i].data)
                  ELSE dev

\* An I2C read completes; a successful one has filled self->read_buf.
I2CReadDone ==
    \E i \in 1..Len(pending), result_code \in I2CResults, data \in ReadData :
        /\ pending[i].type = "i2c_read"
        /\ Done(i, result_code,
                Dispatch(pending[i].cb,
                         IF result_code = BH1750_I2C_RESULT_CODE_OK
                         THEN [inst EXCEPT !.read_buf = data]
                         ELSE inst,
                         result_code))
        /\ dev' = dev

\* The timer expires.
TimerExpired ==
    \E i \in 1..Len(pending) :
        /\ pending[i].type = "start_timer"
        /\ Done(i, NoArg, Dispatch(pending[i].cb, inst, NoArg))
        /\ dev' = dev

Next ==
    \/ CallInit
    \/ CallPowerOn
    \/ CallPowerDown
    \/ CallReset
    \/ CallStartContinuousMeasurement
    \/ CallReadContinuousMeasurement
    \/ CallReadOneTimeMeasurement
    \/ CallSetMeasurementTime
    \/ CallDestroy
    \/ I2CWriteDone
    \/ I2CReadDone
    \/ TimerExpired

Spec == Init /\ [][Next]_vars

(***************************************************************************)
(* Vocabulary of the properties.                                           *)
(***************************************************************************)
SequenceOps ==
    {"bh1750_init", "bh1750_power_on", "bh1750_power_down", "bh1750_reset",
     "bh1750_start_continuous_measurement", "bh1750_read_continuous_measurement",
     "bh1750_read_one_time_measurement", "bh1750_set_measurement_time"}

PublicOps == SequenceOps \cup {"bh1750_destroy"}

\* The step was a public call whose arguments are structurally valid.
ValidCall(step) ==
    /\ step.kind = "call"
    /\ step.args.self # NULL
    /\ step.op \in {"bh1750_start_continuous_measurement",
                    "bh1750_read_one_time_measurement"}
          => is_valid_meas_mode(step.args.meas_mode)
    /\ step.op \in {"bh1750_read_continuous_measurement",
                    "bh1750_read_one_time_measurement"}
          => step.args.meas_lx # NULL
    /\ step.op = "bh1750_set_measurement_time" => is_valid_meas_time(step.args.meas_time)

\* The lifecycle precondition of public function op holds of instance self.
PreconditionMet(op, self) ==
    CASE op = "bh1750_init" -> ~self.initialized
      [] op = "bh1750_read_continuous_measurement" ->
             self.initialized /\ self.cont_meas_ongoing
      [] op = "bh1750_set_measurement_time" ->
             self.initialized /\ ~self.cont_meas_ongoing
      [] op = "bh1750_destroy" -> TRUE
      [] OTHER -> self.initialized

\* The step issued no transport request and invoked no callback.
Quiet(step) == Requests(step.fx) = <<>> /\ Callbacks(step.fx) = <<>>

\* C1: a public call with valid arguments on an instance whose sequence is
\* in progress returns BUSY, whether or not its lifecycle precondition is
\* met, invokes no callback and issues no transport request.
C1_BusyGate ==
    (ValidCall(last) /\ last.op \in PublicOps /\ last.self.is_seq_ongoing)
        => (last.rc = BH1750_RESULT_CODE_BUSY /\ Quiet(last))

\* C2: the callback of a call that returned OK is invoked at most once and
\* with the user data of that call, a call that did not return OK is never
\* called back (it invokes nothing and stores neither its callback nor its
\* user data), and a call that passed no callback is never called back.
C2_SingleCompletionCallback ==
    /\ stray = {}
    /\ Rejected(last) =>
           /\ Callbacks(last.fx) = <<>>
           /\ last.args.self # NULL =>
                  /\ inst.seq_cb = last.self.seq_cb
                  /\ inst.seq_cb_user_data = last.self.seq_cb_user_data

\* C3: every started sequence terminates.  Once the transport has completed
\* every request it was given, the sequence is no longer in progress, every
\* started sequence has run its terminal action and every call that passed
\* a callback has been called back.
C3_EverySequenceTerminates ==
    pending = <<>> => (~inst.is_seq_ongoing /\ ended >= started /\ owed = {})

\* C4: when a completion callback is invoked, with OK, IO_ERR or DRIVER_ERR,
\* the sequence is already over, so a public call made from inside it with
\* valid arguments and its precondition met returns OK, and starts a new
\* sequence unless it is bh1750_destroy.
C4_CallbackSeesSequenceEnded ==
    /\ \A k \in 1..Len(last.fx) :
           IsCb(last.fx[k]) =>
               /\ ~last.fx[k].is_seq_ongoing
               /\ last.fx[k].rc \in {BH1750_RESULT_CODE_OK, BH1750_RESULT_CODE_IO_ERR,
                                     BH1750_RESULT_CODE_DRIVER_ERR}
    /\ (ValidCall(last) /\ last.in_cb /\ PreconditionMet(last.op, last.self)) =>
           /\ last.rc = BH1750_RESULT_CODE_OK
           /\ last.op # "bh1750_destroy" =>
                  (inst.is_seq_ongoing /\ Requests(last.fx) # <<>>)

\* A call made from inside a completion callback was accepted and started a
\* sequence.
C4_Witness ==
    /\ last.kind = "call"
    /\ last.in_cb
    /\ last.op = "bh1750_read_one_time_measurement"
    /\ last.rc = BH1750_RESULT_CODE_OK
    /\ inst.is_seq_ongoing

\* C5: the sequence is in progress exactly when a sequence was started whose
\* terminal action has not run yet; it is not in progress right after
\* create, nor when no transport request is outstanding.
C5_SequenceInProgressIffStartedNotEnded ==
    /\ inst.is_seq_ongoing <=> started > ended
    /\ last.kind = "create" => ~inst.is_seq_ongoing
    /\ pending = <<>> => ~inst.is_seq_ongoing

\* C6: no completion callback is ever invoked with DRIVER_ERR.
C6_NoDriverError ==
    \A k \in 1..Len(last.fx) :
        IsCb(last.fx[k]) => last.fx[k].rc # BH1750_RESULT_CODE_DRIVER_ERR

\* C7: once the instance is initialized, the measurement time it keeps is
\* never 0, also after a bh1750_set_measurement_time whose first or second
\* write failed.
C7_MeasTimeNeverZero == inst.initialized => inst.meas_time # 0

\* C8: a bh1750_read_continuous_measurement that succeeds converts with the
\* mode of the most recent bh1750_start_continuous_measurement that
\* completed successfully, which is the mode the device was last started in.
C8_ReadContinuousUsesActiveMode ==
    (last.kind = "done" /\ last.seq = "bh1750_read_continuous_measurement") =>
        \A k \in 1..Len(last.fx) :
            IsStore(last.fx[k]) => last.fx[k].meas_mode = dev.started_mode

\* C9: whenever the instance is initialized and no sequence is in progress,
\* the measurement time it keeps equals the device's measurement time
\* register.
C9_MeasTimeTracksDevice ==
    (inst.initialized /\ ~inst.is_seq_ongoing) => inst.meas_time = dev.mtreg

\* C10: on an instance that is not initialized, each public function other
\* than bh1750_init and bh1750_destroy, called with valid arguments, returns
\* INVALID_USAGE, issues no transport request and invokes no callback.
C10_InvalidUsageBeforeInit ==
    (ValidCall(last) /\ last.op \in SequenceOps \ {"bh1750_init"}
        /\ ~last.self.initialized)
        => (last.rc = BH1750_RESULT_CODE_INVALID_USAGE /\ Quiet(last))

\* bh1750_reset was called with valid arguments on an instance whose
\* bh1750_init failed.
C10_Witness ==
    /\ ValidCall(last)
    /\ last.op = "bh1750_reset"
    /\ ~last.self.initialized
    /\ ended >= 1
    /\ last.rc = BH1750_RESULT_CODE_INVALID_USAGE

\* The terminal effects of fx.
Ends(fx) == SelectSeq(fx, IsEnd)

\* The step ran the terminal action with result rc: it issued no request,
\* ended the sequence once, and invoked the stored callback, if any, once
\* with rc.
CompletedWith(step, rc) ==
    /\ Requests(step.fx) = <<>>
    /\ Len(Ends(step.fx)) = 1
    /\ Ends(step.fx)[1].rc = rc
    /\ Len(Callbacks(step.fx)) = (IF step.self.seq_cb # NULL THEN 1 ELSE 0)
    /\ \A k \in 1..Len(Callbacks(step.fx)) : Callbacks(step.fx)[k].rc = rc

\* The step issued the single write of cmd to the configured address, to be
\* continued by cb, and nothing else.
IssuedWrite(step, cmd, cb) ==
    /\ step.fx = <<[type |-> "i2c_write", data |-> cmd,
                    i2c_addr |-> DefaultInitCfg.i2c_addr, cb |-> cb]>>

\* The step is the completion, by handler, of a request of a sequence that
\* public function op started.
Completion(step, op, handler) ==
    step.kind = "done" /\ step.seq = op /\ step.op = handler

\* C11: bh1750_init issues the power-on write (0x01), after its success the
\* set-high-bits write (0x42), after its success the set-low-bits write
\* (0x65), each to the configured address; a failed write ends the sequence
\* with IO_ERR and issues no further write.
C11_InitWriteChain ==
    /\ (last.kind = "call" /\ last.op = "bh1750_init"
            /\ last.rc = BH1750_RESULT_CODE_OK)
           => IssuedWrite(last, 1, "init_part_2")
    /\ (last.kind = "done" /\ last.seq = "bh1750_init") =>
           IF last.result_code # BH1750_I2C_RESULT_CODE_OK
           THEN CompletedWith(last, BH1750_RESULT_CODE_IO_ERR)
           ELSE CASE last.op = "init_part_2" ->
                         IssuedWrite(last, 66, "set_meas_time_part_2")
                  [] last.op = "set_meas_time_part_2" ->
                         IssuedWrite(last, 101, "set_meas_time_part_3")
                  [] last.op = "set_meas_time_part_3" ->
                         CompletedWith(last, BH1750_RESULT_CODE_OK)
                  [] OTHER -> FALSE

\* C12: initialized becomes true only when the third write of a bh1750_init
\* sequence completes successfully and the sequence ends with OK; a failed
\* write of a bh1750_init sequence leaves it as it was; once true it is
\* never false again.
C12_InitializedOnlyAfterThirdWrite ==
    /\ (~last.self.initialized /\ inst.initialized) =>
           /\ Completion(last, "bh1750_init", "set_meas_time_part_3")
           /\ last.result_code = BH1750_I2C_RESULT_CODE_OK
           /\ CompletedWith(last, BH1750_RESULT_CODE_OK)
    /\ (last.kind = "done" /\ last.seq = "bh1750_init"
            /\ last.result_code # BH1750_I2C_RESULT_CODE_OK)
           => inst.initialized = last.self.initialized
    /\ last.self.initialized => inst.initialized

\* The third write of a bh1750_init sequence failed on an instance that was
\* not initialized.
C12_Witness ==
    /\ Completion(last, "bh1750_init", "set_meas_time_part_3")
    /\ last.result_code = BH1750_I2C_RESULT_CODE_ERR
    /\ ~last.self.initialized
    /\ ~inst.initialized

\* C13: bh1750_init on an instance that is already initialized returns
\* INVALID_USAGE, issues no write, invokes no callback and leaves the
\* instance as it was.
C13_InitTwiceInvalidUsage ==
    (ValidCall(last) /\ last.op = "bh1750_init" /\ last.self.initialized) =>
        /\ last.rc = BH1750_RESULT_CODE_INVALID_USAGE
        /\ last.fx = <<>>
        /\ inst = last.self

\* bh1750_init was called on an initialized instance with no sequence in
\* progress.
C13_Witness ==
    /\ ValidCall(last)
    /\ last.op = "bh1750_init"
    /\ last.self.initialized
    /\ ~last.self.is_seq_ongoing
    /\ last.rc = BH1750_RESULT_CODE_INVALID_USAGE

\* C14: bh1750_read_continuous_measurement with valid arguments and no
\* sequence in progress, before any bh1750_start_continuous_measurement has
\* completed successfully (the device has received no start command),
\* returns INVALID_USAGE and issues no read.
C14_ReadContinuousBeforeStart ==
    (ValidCall(last) /\ last.op = "bh1750_read_continuous_measurement"
        /\ ~last.self.is_seq_ongoing /\ dev.started_mode = NoArg)
        => (last.rc = BH1750_RESULT_CODE_INVALID_USAGE /\ Quiet(last))

\* bh1750_read_continuous_measurement was called on an initialized instance
\* whose only bh1750_start_continuous_measurement (the second accepted call,
\* with L_RES) completed with an I2C failure.
C14_Witness ==
    /\ ValidCall(last)
    /\ last.op = "bh1750_read_continuous_measurement"
    /\ last.self.initialized
    /\ started = 2
    /\ ended = 2
    /\ last.self.meas_mode = BH1750_MEAS_MODE_L_RES
    /\ last.self.meas_p = NULL
    /\ dev.started_mode = NoArg
    /\ last.rc = BH1750_RESULT_CODE_INVALID_USAGE

\* The opcode of the start-continuous-measurement command of a mode.
StartOpcode(meas_mode) ==
    CASE meas_mode = BH1750_MEAS_MODE_H_RES -> 16
      [] meas_mode = BH1750_MEAS_MODE_H_RES2 -> 17
      [] meas_mode = BH1750_MEAS_MODE_L_RES -> 19

\* bh1750_start_continuous_measurement issues the single write of the mode
\* opcode, and when that write succeeds the sequence ends with OK and
\* cont_meas_ongoing is true.
StartContinuousOnSuccess ==
    /\ (last.kind = "call" /\ last.op = "bh1750_start_continuous_measurement"
            /\ last.rc = BH1750_RESULT_CODE_OK)
           => IssuedWrite(last, StartOpcode(last.args.meas_mode),
                          "start_continuous_measurement_part_2")
    /\ (Completion(last, "bh1750_start_continuous_measurement",
                   "start_continuous_measurement_part_2")
            /\ last.result_code = BH1750_I2C_RESULT_CODE_OK)
           => (CompletedWith(last, BH1750_RESULT_CODE_OK) /\ inst.cont_meas_ongoing)

\* The write of a bh1750_start_continuous_measurement failed.
StartContinuousFailed ==
    /\ Completion(last, "bh1750_start_continuous_measurement",
                  "start_continuous_measurement_part_2")
    /\ last.result_code # BH1750_I2C_RESULT_CODE_OK

C16_SetMeasTimeRejectedWhileContinuous ==
    (ValidCall(last) /\ last.op = "bh1750_set_measurement_time"
        /\ last.self.cont_meas_ongoing)
        => /\ last.rc = BH1750_RESULT_CODE_INVALID_USAGE
           /\ Quiet(last)
           /\ inst.meas_time = last.self.meas_time
           /\ inst.meas_time_to_set = last.self.meas_time_to_set

\* bh1750_set_measurement_time was called with a valid time other than the
\* one kept, with a callback, on an initialized instance with continuous
\* measurement ongoing and no sequence in progress.
C16_Witness ==
    /\ ValidCall(last)
    /\ last.op = "bh1750_set_measurement_time"
    /\ last.self.initialized
    /\ last.self.cont_meas_ongoing
    /\ ~last.self.is_seq_ongoing
    /\ last.args.cb # NULL
    /\ last.args.meas_time # last.self.meas_time
    /\ last.rc = BH1750_RESULT_CODE_INVALID_USAGE

\* The step is the completion, with an I2C failure, of the set-high-bits
\* write of a bh1750_set_measurement_time sequence.
SetMeasTimeWrite1Failed ==
    /\ Completion(last, "bh1750_set_measurement_time", "set_meas_time_part_2")
    /\ last.result_code # BH1750_I2C_RESULT_CODE_OK

\* C17: when the set-high-bits write of a bh1750_set_measurement_time
\* sequence fails, the sequence ends with IO_ERR (passed to the callback, if
\* any), the set-low-bits write is not issued, and meas_time is the value it
\* had when bh1750_set_measurement_time was called.
C17_Write1FailKeepsMeasTime ==
    SetMeasTimeWrite1Failed
        => /\ CompletedWith(last, BH1750_RESULT_CODE_IO_ERR)
           /\ inst.meas_time = last.given.old_meas_time

\* The step is the completion, with an I2C failure, of the set-low-bits
\* write of a bh1750_set_measurement_time sequence.
SetMeasTimeWrite2Failed ==
    /\ Completion(last, "bh1750_set_measurement_time", "set_meas_time_part_3")
    /\ last.result_code # BH1750_I2C_RESULT_CODE_OK

\* The three high bits of meas_time with the five low bits of old:
\* ((meas_time >> 5) << 5) | (old & 0x1F).
HighOfWithLowOf(meas_time, old) == (meas_time \div 32) * 32 + (old % 32)

\* C18: when the set-high-bits write of bh1750_set_measurement_time(t)
\* succeeded and its set-low-bits write fails, the sequence ends with IO_ERR
\* (passed to the callback, if any) and meas_time is the three high bits of
\* t with the five low bits of the value it had when the call was made.
C18_Write2FailKeepsHighBits ==
    SetMeasTimeWrite2Failed
        => /\ CompletedWith(last, BH1750_RESULT_CODE_IO_ERR)
           /\ inst.meas_time =
                  HighOfWithLowOf(last.given.meas_time, last.given.old_meas_time)

\* The step is the successful completion, by handler, of a write of a
\* bh1750_set_measurement_time sequence.
SetMeasTimeWriteSucceeded(handler) ==
    /\ Completion(last, "bh1750_set_measurement_time", handler)
    /\ last.result_code = BH1750_I2C_RESULT_CODE_OK

\* The step changed meas_time.
MeasTimeChanged == last.kind # "create" /\ inst.meas_time # last.self.meas_time

\* The step is the successful completion of a set-high-bits or set-low-bits
\* write, of whichever sequence.
MtregWriteSucceeded ==
    /\ last.kind = "done"
    /\ last.op \in {"set_meas_time_part_2", "set_meas_time_part_3"}
    /\ last.result_code = BH1750_I2C_RESULT_CODE_OK

\* C19: an accepted bh1750_set_measurement_time(t) issues the write of
\* 0x40 | (t >> 5); when that write succeeds the write of 0x60 | (t & 0x1F)
\* is issued; when that write succeeds the sequence ends with OK and
\* meas_time is t.  meas_time changes only when a set-high-bits or
\* set-low-bits write succeeds, and every conversion and every one-shot
\* timer delay is computed from the measurement time the successful writes
\* have set.
C19_SetMeasTimeRoundTrip ==
    /\ (last.kind = "call" /\ last.op = "bh1750_set_measurement_time"
            /\ last.rc = BH1750_RESULT_CODE_OK)
           => IssuedWrite(last, 64 + (last.given.meas_time \div 32),
                          "set_meas_time_part_2")
    /\ SetMeasTimeWriteSucceeded("set_meas_time_part_2")
           => IssuedWrite(last, 96 + (last.given.meas_time % 32),
                          "set_meas_time_part_3")
    /\ SetMeasTimeWriteSucceeded("set_meas_time_part_3")
           => /\ CompletedWith(last, BH1750_RESULT_CODE_OK)
              /\ inst.meas_time = last.given.meas_time
    /\ MeasTimeChanged => MtregWriteSucceeded
    /\ last.kind = "done" =>
           \A k \in 1..Len(last.fx) :
               /\ IsStore(last.fx[k]) => last.fx[k].meas_time = dev.mtreg
               /\ last.fx[k].type = "start_timer" =>
                      last.fx[k].data =
                          timer_period([last.self EXCEPT !.meas_time = dev.mtreg])

\* The result codes a public function other than bh1750_create returns.
SynchronousCodes ==
    {BH1750_RESULT_CODE_OK, BH1750_RESULT_CODE_INVALID_ARG,
     BH1750_RESULT_CODE_INVALID_USAGE, BH1750_RESULT_CODE_BUSY}

\* The result codes a completion callback is given.
CallbackCodes ==
    {BH1750_RESULT_CODE_OK, BH1750_RESULT_CODE_IO_ERR, BH1750_RESULT_CODE_DRIVER_ERR}

I2CFailed ==
    /\ last.kind = "done"
    /\ last.result_code \in I2CResults \ {BH1750_I2C_RESULT_CODE_OK}

\* C21: when an I2C transaction of any sequence completes with a failure,
\* the handler ends the sequence with IO_ERR in that step: it issues no I2C
\* write, no I2C read and no timer request (neither the failed transaction
\* again nor the next one of the chain), and no sequence is in progress
\* afterwards.
C21_NoRetries ==
    I2CFailed
        => /\ CompletedWith(last, BH1750_RESULT_CODE_IO_ERR)
           /\ ~inst.is_seq_ongoing

\* The one-time-measurement command write of the only sequence in progress
\* failed, and no request is outstanding.
C21_Witness ==
    /\ I2CFailed
    /\ Completion(last, "bh1750_read_one_time_measurement", "read_one_time_meas_part_2")
    /\ last.self.is_seq_ongoing
    /\ started = ended
    /\ pending = <<>>

InvalidCall(step) == step.kind = "call" /\ ~ValidCall(step)

\* C23: a public call with a null instance, an invalid measurement mode, an
\* invalid measurement time or a null result pointer returns INVALID_ARG,
\* whatever the instance's initialized, cont_meas_ongoing and is_seq_ongoing
\* are, issues no I2C or timer request and invokes no callback.
C23_InvalidArgumentsFirst ==
    InvalidCall(last) => (last.rc = BH1750_RESULT_CODE_INVALID_ARG /\ Quiet(last))

\* bh1750_read_one_time_measurement was called with an invalid mode on an
\* instance that is not initialized and whose sequence is in progress, so
\* that the usage and busy checks would have rejected it too.
C23_Witness ==
    /\ InvalidCall(last)
    /\ last.op = "bh1750_read_one_time_measurement"
    /\ last.args.self # NULL
    /\ last.args.meas_lx # NULL
    /\ ~is_valid_meas_mode(last.args.meas_mode)
    /\ ~last.self.initialized
    /\ last.self.is_seq_ongoing
    /\ last.rc = BH1750_RESULT_CODE_INVALID_ARG

\* C24: a public call that returns INVALID_ARG, INVALID_USAGE or BUSY leaves
\* every field of the instance as it was (initialized, cont_meas_ongoing,
\* is_seq_ongoing, meas_mode, meas_time, meas_time_to_set, seq_cb,
\* seq_cb_user_data, meas_p), issues no request and invokes no callback, so
\* that what the sequence in flight completes with is not changed by it.
C24_RejectedCallNoSideEffect ==
    Rejected(last) => (inst = last.self /\ last.fx = <<>>)

\* bh1750_start_continuous_measurement was called with a callback and a
\* mode other than the one kept, during the sequence of another call, and
\* returned BUSY.
C24_Witness ==
    /\ Rejected(last)
    /\ last.op = "bh1750_start_continuous_measurement"
    /\ last.rc = BH1750_RESULT_CODE_BUSY
    /\ last.args.cb # NULL
    /\ last.args.meas_mode # last.self.meas_mode
    /\ pending # <<>>

\* The step belongs to a bh1750_read_one_time_measurement sequence and is
\* the completion handled by handler.
ReadOneTimeStep(handler) ==
    Completion(last, "bh1750_read_one_time_measurement", handler)

\* The step issued the single 2-byte read to the configured address, to be
\* continued by read_meas_final_part, and nothing else.
IssuedRead(step) ==
    step.fx = <<[type |-> "i2c_read", data |-> 2,
                 i2c_addr |-> DefaultInitCfg.i2c_addr, cb |-> "read_meas_final_part"]>>

\* The step issued a single timer start, to be continued by
\* read_one_time_meas_part_3, and nothing else.
IssuedTimer(step) ==
    /\ Len(step.fx) = 1
    /\ step.fx[1].type = "start_timer"
    /\ step.fx[1].cb = "read_one_time_meas_part_3"

\* The step stored through the result pointer the conversion, in mode
\* meas_mode with the measurement time the instance kept, of the two bytes
\* read, then ended the sequence and invoked the callback, if any, with OK.
StoredThenCompleted(step, meas_mode, raw_meas) ==
    /\ Len(step.fx) >= 2
    /\ step.fx[1] =
           [type |-> "store", p |-> "meas_lx",
            lx |-> convert_raw_meas_to_lx([step.self EXCEPT !.meas_mode = meas_mode],
                                          raw_meas).lx,
            meas_mode |-> meas_mode, meas_time |-> step.self.meas_time]
    /\ Requests(step.fx) = <<>>
    /\ Len(Ends(step.fx)) = 1
    /\ Ends(step.fx)[1].rc = BH1750_RESULT_CODE_OK
    /\ Len(Callbacks(step.fx)) = (IF step.self.seq_cb # NULL THEN 1 ELSE 0)
    /\ \A k \in 1..Len(Callbacks(step.fx)) :
           Callbacks(step.fx)[k].rc = BH1750_RESULT_CODE_OK

\* C25: an accepted bh1750_read_one_time_measurement issues the write of the
\* one-time-measurement opcode of its mode; when that write succeeds exactly
\* one timer is started, and when it fails the sequence ends with IO_ERR and
\* neither timer nor read is issued; when the timer expires exactly one
\* 2-byte read is issued, and a read of the sequence is issued by no other
\* step; when the read succeeds the value is converted with the mode given
\* to the call and the measurement time kept, stored through the result
\* pointer, and the callback is invoked with OK.
C25_ReadOneTimeChain ==
    /\ (last.kind = "call" /\ last.op = "bh1750_read_one_time_measurement"
            /\ last.rc = BH1750_RESULT_CODE_OK)
           => IssuedWrite(last, get_one_time_meas_cmd_code(last.given.meas_mode),
                          "read_one_time_meas_part_2")
    /\ ReadOneTimeStep("read_one_time_meas_part_2")
           => IF last.result_code = BH1750_I2C_RESULT_CODE_OK
              THEN IssuedTimer(last)
              ELSE CompletedWith(last, BH1750_RESULT_CODE_IO_ERR)
    /\ ReadOneTimeStep("read_one_time_meas_part_3") => IssuedRead(last)
    /\ (last.seq = "bh1750_read_one_time_measurement"
            /\ \E k \in 1..Len(last.fx) : last.fx[k].type = "i2c_read")
           => ReadOneTimeStep("read_one_time_meas_part_3")
    /\ (ReadOneTimeStep("read_meas_final_part")
            /\ last.result_code = BH1750_I2C_RESULT_CODE_OK)
           => \E data \in ReadData :
                  StoredThenCompleted(last, last.given.meas_mode,
                                      two_big_endian_bytes_to_uint16(data))

(***************************************************************************)
(* Measurements over the whole range of measurement times.  The instance   *)
(* starts initialized with a measurement time t of 31..254 set: the state   *)
(* bh1750_create, a successful bh1750_init and a successful                 *)
(* bh1750_set_measurement_time(t) leave.  One-time measurements are then    *)
(* read, the reads delivering the raw samples.                              *)
(***************************************************************************)
MeasTimes == BH1750_MIN_MEAS_TIME..BH1750_MAX_MEAS_TIME

\* The two bytes a successful read delivers: 66 (halfway between two
\* integers in H_RES at measurement time 66 and in H_RES2 at 33), 0x8390,
\* and 0xFFFF (halfway in L_RES).
RawSamples == {<<0, 66>>, <<131, 144>>, <<255, 255>>}

\* The instance after bh1750_create and a successful bh1750_init.
Initialized ==
    LET made == bh1750_create("inst_p", DefaultInitCfg, InstanceMemory).inst
        s1 == bh1750_init(made, NULL, 1).inst
        s2 == init_part_2(s1, BH1750_I2C_RESULT_CODE_OK).inst
        s3 == set_meas_time_part_2(s2, BH1750_I2C_RESULT_CODE_OK).inst
    IN  set_meas_time_part_3(s3, BH1750_I2C_RESULT_CODE_OK).inst

\* The instance when the set-low-bits write of bh1750_set_measurement_time(t)
\* on it completes.
SettingMeasTime(t) ==
    LET s1 == bh1750_set_measurement_time(Initialized, t, NULL, 2).inst
    IN  set_meas_time_part_2(s1, BH1750_I2C_RESULT_CODE_OK).inst

MeasureInit ==
    \E t \in MeasTimes :
        LET r == set_meas_time_part_3(SettingMeasTime(t), BH1750_I2C_RESULT_CODE_OK)
        IN  /\ inst = r.inst
            /\ alive = TRUE
            /\ pending = <<>>
            /\ dev = [mtreg |-> t, started_mode |-> NoArg]
            /\ started = 2
            /\ ended = 2
            /\ owed = {}
            /\ stray = {}
            /\ freed = 0
            /\ last = [kind |-> "done", op |-> "set_meas_time_part_3",
                       seq |-> "bh1750_set_measurement_time",
                       given |-> Given("bh1750_set_measurement_time",
                                       [NoArgs EXCEPT !.meas_time = t], Initialized),
                       rc |-> "none", result_code |-> BH1750_I2C_RESULT_CODE_OK,
                       args |-> NoArgs, fx |-> r.fx, self |-> SettingMeasTime(t),
                       in_cb |-> FALSE]

\* An I2C read completes; a successful one has filled self->read_buf with
\* one of the raw samples.
I2CReadDoneSampled ==
    \E i \in 1..Len(pending), result_code \in I2CResults, data \in RawSamples :
        /\ pending[i].type = "i2c_read"
        /\ Done(i, result_code,
                Dispatch(pending[i].cb,
                         IF result_code = BH1750_I2C_RESULT_CODE_OK
                         THEN [inst EXCEPT !.read_buf = data]
                         ELSE inst,
                         result_code))
        /\ dev' = dev

MeasureNext ==
    \/ CallReadOneTimeMeasurement
    \/ I2CWriteDone
    \/ TimerExpired
    \/ I2CReadDoneSampled

MeasureSpec == MeasureInit /\ [][MeasureNext]_vars

\* The least integer not below n / d, for n >= 0 and d > 0.
CeilDiv(n, d) == (n + d - 1) \div d

\* The step is the successful completion of the opcode write of a
\* bh1750_read_one_time_measurement, and started the timer.
TimerStarted ==
    /\ ReadOneTimeStep("read_one_time_meas_part_2")
    /\ last.result_code = BH1750_I2C_RESULT_CODE_OK
    /\ IssuedTimer(last)

\* C26: the delay of the one-shot timer is 24 ms in L_RES whatever the
\* measurement time, and in H_RES and H_RES2 the least integer not below
\* 180 * meas_time / 69 for the meas_time kept when the opcode write
\* completes (180 at 69, 360 at 138, 663 at 254, 81 at 31, 84 at 32), so it
\* is never shorter than 180 * meas_time / 69.
C26_TimerDelay ==
    (ReadOneTimeStep("read_one_time_meas_part_2")
        /\ last.result_code = BH1750_I2C_RESULT_CODE_OK)
        => /\ IssuedTimer(last)
           /\ last.fx[1].data =
                  (IF last.self.meas_mode = BH1750_MEAS_MODE_L_RES
                   THEN 24
                   ELSE CeilDiv(180 * last.self.meas_time, 69))
           /\ last.self.meas_mode # BH1750_MEAS_MODE_L_RES
                  => 69 * last.fx[1].data >= 180 * last.self.meas_time

\* The timer of a one-time measurement in H_RES at measurement time 32 was
\* started with 84 ms.
C26_Witness ==
    /\ TimerStarted
    /\ last.self.meas_mode = BH1750_MEAS_MODE_H_RES
    /\ last.self.meas_time = 32
    /\ last.fx[1].data = 84

\* The step is the successful completion of the read of a measurement, and
\* stored a value through the result pointer.
Converted ==
    /\ last.kind = "done"
    /\ last.op = "read_meas_final_part"
    /\ last.result_code = BH1750_I2C_RESULT_CODE_OK
    /\ Len(last.fx) >= 1
    /\ IsStore(last.fx[1])

\* The raw value of the step: (b0 << 8) | b1 of the two bytes read.
RawOf == inst.read_buf[1] * 256 + inst.read_buf[2]

\* The exact value of the conversion law as a fraction: raw / 1.2 in L_RES,
\* raw / 1.2 * 69 / t in H_RES, raw / 1.2 * 69 / t / 2 in H_RES2.
LawNum(raw) ==
    IF last.fx[1].meas_mode = BH1750_MEAS_MODE_L_RES THEN 5 * raw ELSE 5 * 69 * raw

LawDen ==
    CASE last.fx[1].meas_mode = BH1750_MEAS_MODE_L_RES -> 6
      [] last.fx[1].meas_mode = BH1750_MEAS_MODE_H_RES -> 6 * last.fx[1].meas_time
      [] OTHER -> 12 * last.fx[1].meas_time

\* The nearest integer of n / d, halfway cases away from zero (n >= 0, d > 0).
RoundHalfAway(n, d) == (2 * n + d) \div (2 * d)

\* n / d is halfway between two integers.
Halfway(n, d) == (2 * n) % (2 * d) = d

\* C27, as stated: the value stored is the nearest integer, halfway cases
\* away from zero, of raw / 1.2 in L_RES, of raw / 1.2 * 69 / t in H_RES and
\* of raw / 1.2 * 69 / t / 2 in H_RES2, for the raw value read and the
\* measurement time t kept.
C27_ConversionLaw ==
    Converted => last.fx[1].lx = RoundHalfAway(LawNum(RawOf), LawDen)

\* C27, amended: the value stored is an integer nearest to the value of the
\* law (it is at most 1/2 away from it), and it is the halfway-away-from-zero
\* rounding of it in L_RES and whenever the value of the law is not halfway
\* between two integers; raw 0x8390 gives 28067, 28067, 14033 in L_RES, H_RES,
\* H_RES2 at measurement time 69 and 28067, 14033, 7017 at 138.
C27_ConversionNearest ==
    Converted =>
        LET n == LawNum(RawOf)
            d == LawDen
            lx == last.fx[1].lx
        IN  /\ 2 * lx * d <= 2 * n + d
            /\ 2 * lx * d >= 2 * n - d
            /\ (last.fx[1].meas_mode = BH1750_MEAS_MODE_L_RES \/ ~Halfway(n, d))
                   => lx = RoundHalfAway(n, d)
            /\ (RawOf = 33680 /\ last.fx[1].meas_time \in {69, 138}) =>
                   lx = (CASE last.fx[1].meas_mode = BH1750_MEAS_MODE_L_RES -> 28067
                           [] last.fx[1].meas_mode = BH1750_MEAS_MODE_H_RES ->
                                  IF last.fx[1].meas_time = 69 THEN 28067 ELSE 14033
                           [] OTHER ->
                                  IF last.fx[1].meas_time = 69 THEN 14033 ELSE 7017)

\* Raw 66 was converted in H_RES at measurement time 66, where the value of
\* the law is 57.5, and 57 was stored.
C27_Witness ==
    /\ Converted
    /\ RawOf = 66
    /\ last.fx[1].meas_mode = BH1750_MEAS_MODE_H_RES
    /\ last.fx[1].meas_time = 66
    /\ Halfway(LawNum(RawOf), LawDen)
    /\ last.fx[1].lx = 57

\* The stores of fx through a result pointer.
Stores(fx) == SelectSeq(fx, IsStore)

\* The step is the successful completion of the 2-byte read of a
\* bh1750_read_continuous_measurement or bh1750_read_one_time_measurement.
ReadSucceeded ==
    /\ last.kind = "done"
    /\ last.op = "read_meas_final_part"
    /\ last.result_code = BH1750_I2C_RESULT_CODE_OK

\* C28: the result pointer of bh1750_read_continuous_measurement and
\* bh1750_read_one_time_measurement is written exactly in the step where the
\* 2-byte read completes successfully: once, through the pointer the caller
\* passed, before the callback, which is given OK; no other step writes it,
\* and a step that ends a sequence with IO_ERR does not write it.
C28_OutputPointerDiscipline ==
    /\ ReadSucceeded
           => /\ Len(Stores(last.fx)) = 1
              /\ IsStore(last.fx[1])
              /\ last.fx[1].p = "meas_lx"
              /\ \A k \in 1..Len(Callbacks(last.fx)) :
                     Callbacks(last.fx)[k].rc = BH1750_RESULT_CODE_OK
    /\ ~ReadSucceeded => Stores(last.fx) = <<>>
    /\ (\E k \in 1..Len(last.fx) :
            IsEnd(last.fx[k]) /\ last.fx[k].rc = BH1750_RESULT_CODE_IO_ERR)
           => Stores(last.fx) = <<>>

(***************************************************************************)
(* Creation.  bh1750_create is called once, with any out-pointer, any      *)
(* configuration and any result of the allocator.                          *)
(***************************************************************************)
\* The out-pointer for the instance.
InstPArgs == {NULL, "inst_p"}

\* I2C addresses: the two of the device, and two that are neither.
AddrArgs == {BH1750_I2C_ADDR_ADDR_LOW, BH1750_I2C_ADDR_ADDR_HIGH, 0, 36}

\* Configurations: none, and every combination of present and missing
\* functions with each address.
InitCfgs ==
    {NullStruct} \cup
    {[DefaultInitCfg EXCEPT !.get_instance_memory = g, !.i2c_write = w, !.i2c_read = r,
                            !.start_timer = t, !.i2c_addr = a] :
        g \in {NULL, "get_instance_memory"}, w \in {NULL, "i2c_write"},
        r \in {NULL, "i2c_read"}, t \in {NULL, "start_timer"}, a \in AddrArgs}

\* What the allocator returns: null, zeroed storage, or storage that holds
\* what an earlier instance left in it.
Memories ==
    {NullStruct, InstanceMemory,
     [InstanceMemory EXCEPT !.initialized = TRUE, !.cont_meas_ongoing = TRUE,
                            !.is_seq_ongoing = TRUE, !.meas_time = 138,
                            !.i2c_addr = BH1750_I2C_ADDR_ADDR_HIGH]}

\* No instance exists yet.
CreateInit ==
    /\ inst = NullStruct
    /\ alive = FALSE
    /\ pending = <<>>
    /\ dev = [mtreg |-> BH1750_DEFAULT_MEAS_TIME, started_mode |-> NoArg]
    /\ started = 0
    /\ ended = 0
    /\ owed = {}
    /\ stray = {}
    /\ freed = 0
    /\ last = [kind |-> "none", op |-> "none", seq |-> "none",
               given |-> Given("none", NoArgs, InstanceMemory), rc |-> "none",
               result_code |-> NoArg, args |-> NoArgs, fx |-> <<>>,
               self |-> NullStruct, in_cb |-> FALSE]

CallCreate ==
    \E inst_p \in InstPArgs, cfg \in InitCfgs, memory \in Memories :
        LET r == bh1750_create(inst_p, cfg, memory)
        IN  /\ last.kind = "none"
            /\ inst' = r.inst
            /\ alive' = (r.rc = BH1750_RESULT_CODE_OK)
            /\ last' = [kind |-> "create", op |-> "bh1750_create", seq |-> "none",
                        given |-> Given("bh1750_create", NoArgs, InstanceMemory),
                        rc |-> r.rc, result_code |-> NoArg,
                        args |-> [inst_p |-> inst_p, cfg |-> cfg, memory |-> memory],
                        fx |-> r.fx, self |-> memory, in_cb |-> FALSE]
            /\ UNCHANGED <<pending, dev, started, ended, owed, stray, freed>>

CreateNext == CallCreate

CreateSpec == CreateInit /\ [][CreateNext]_vars

\* The arguments of bh1750_create are not valid: a null out-pointer, no
\* configuration, a missing function or an address that is not the device's.
InvalidCreateArgs(a) ==
    \/ a.inst_p = NULL
    \/ IsNull(a.cfg)
    \/ a.cfg.get_instance_memory = NULL
    \/ a.cfg.i2c_write = NULL
    \/ a.cfg.i2c_read = NULL
    \/ a.cfg.start_timer = NULL
    \/ a.cfg.i2c_addr \notin {35, 92}

\* C29: bh1750_create with a null out-pointer, a null configuration, a null
\* get_instance_memory, i2c_write, i2c_read or start_timer, or an address
\* other than 0x23 and 0x5C returns INVALID_ARG without calling
\* get_instance_memory; otherwise it calls get_instance_memory once with the
\* configured user data, returns OUT_OF_MEMORY when that returns null, and
\* else returns OK with the instance in the memory returned, with
\* initialized, cont_meas_ongoing and is_seq_ongoing false, meas_time 0 and
\* the configured address.
C29_Create ==
    last.kind = "create" =>
        IF InvalidCreateArgs(last.args)
        THEN /\ last.rc = BH1750_RESULT_CODE_INVALID_ARG
             /\ last.fx = <<>>
             /\ IsNull(inst)
        ELSE /\ last.fx = <<[type |-> "get_instance_memory",
                              user_data |-> last.args.cfg.get_instance_memory_user_data]>>
             /\ IF IsNull(last.args.memory)
                THEN last.rc = BH1750_RESULT_CODE_OUT_OF_MEMORY /\ IsNull(inst)
                ELSE /\ last.rc = BH1750_RESULT_CODE_OK
                     /\ inst = [last.args.memory EXCEPT
                                    !.i2c_addr = last.args.cfg.i2c_addr,
                                    !.initialized = FALSE,
                                    !.cont_meas_ongoing = FALSE,
                                    !.is_seq_ongoing = FALSE,
                                    !.meas_time = 0]

\* bh1750_create was called with a valid configuration for address 0x23 and
\* got storage an earlier instance had used, and returned OK.
C29_Witness ==
    /\ last.kind = "create"
    /\ ~InvalidCreateArgs(last.args)
    /\ ~IsNull(last.args.memory)
    /\ last.args.memory.initialized
    /\ last.args.cfg.i2c_addr = 35
    /\ last.rc = BH1750_RESULT_CODE_OK
    /\ ~inst.initialized
    /\ inst.i2c_addr = 35

(***************************************************************************)
(* Synchronous and asynchronous completion.  A public call is run to the   *)
(* end of its sequence in one step, twice: with a transport that invokes   *)
(* each completion inside the transport call, and with a transport that    *)
(* invokes it after the function that made the request has returned.  No   *)
(* driver function touches the instance after its transport call, so the   *)
(* instance a nested completion returns is the one its caller goes on      *)
(* with.                                                                   *)
(***************************************************************************)
\* Sequences run one after the other on the instance.
MaxRuns == 3

\* The number of I2C transactions of the longest sequence op can start:
\* power on, measurement time high and low bits for bh1750_init; command and
\* read for a one-time measurement; the two MTreg writes for
\* bh1750_set_measurement_time; one transaction for the others.
Transactions(op) ==
    CASE op = "bh1750_init" -> 3
      [] op \in {"bh1750_read_one_time_measurement", "bh1750_set_measurement_time"} -> 2
      [] OTHER -> 1

\* The results of the I2C transactions of a sequence of op, in order.
Patterns(op) == [1..Transactions(op) -> I2CResults]

\* Public function op applied to self with the arguments a.
Invoke(op, self, a, user_data) ==
    CASE op = "bh1750_init" -> bh1750_init(self, a.cb, user_data)
      [] op = "bh1750_power_on" -> bh1750_power_on(self, a.cb, user_data)
      [] op = "bh1750_power_down" -> bh1750_power_down(self, a.cb, user_data)
      [] op = "bh1750_reset" -> bh1750_reset(self, a.cb, user_data)
      [] op = "bh1750_start_continuous_measurement" ->
             bh1750_start_continuous_measurement(self, a.meas_mode, a.cb, user_data)
      [] op = "bh1750_read_continuous_measurement" ->
             bh1750_read_continuous_measurement(self, a.meas_lx, a.cb, user_data)
      [] op = "bh1750_read_one_time_measurement" ->
             bh1750_read_one_time_measurement(self, a.meas_mode, a.meas_lx, a.cb,
                                              user_data)
      [] op = "bh1750_set_measurement_time" ->
             bh1750_set_measurement_time(self, a.meas_time, a.cb, user_data)

\* The argument lists of public function op.
ArgsOf(op) ==
    CASE op \in {"bh1750_init", "bh1750_power_on", "bh1750_power_down", "bh1750_reset"} ->
             SimpleArgs
      [] op = "bh1750_start_continuous_measurement" -> ModeArgSets
      [] op = "bh1750_read_continuous_measurement" -> ReadContinuousArgs
      [] op = "bh1750_read_one_time_measurement" -> ReadOneTimeArgs
      [] op = "bh1750_set_measurement_time" -> TimeArgSets

\* The result the transport reports for request req: none for the timer,
\* the next of the pattern for an I2C transaction.
ResultOf(req, pattern) == IF req.type = "start_timer" THEN NoArg ELSE Head(pattern)

RestOf(req, pattern) == IF req.type = "start_timer" THEN pattern ELSE Tail(pattern)

\* The instance when the completion of req is invoked: a successful read has
\* filled self->read_buf.
Arrived(self, req, result_code, data) ==
    IF req.type = "i2c_read" /\ result_code = BH1750_I2C_RESULT_CODE_OK
    THEN [self EXCEPT !.read_buf = data]
    ELSE self

\* The device after req completed with result_code.
Reached(d, req, result_code) ==
    IF req.type = "i2c_write" /\ result_code = BH1750_I2C_RESULT_CODE_OK
    THEN DeviceWrite(d, req.data)
    ELSE d

\* Asynchronous transport: the function that left the effects fx and the
\* instance self has returned; the request it made, if any, then completes,
\* its handler runs, and so on to the end of the sequence.
RECURSIVE AsyncRun(_, _, _, _, _)
AsyncRun(self, d, fx, pattern, data) ==
    IF Requests(fx) = <<>>
    THEN [inst |-> self, dev |-> d, fx |-> fx]
    ELSE LET req == Requests(fx)[Len(Requests(fx))]
             result_code == ResultOf(req, pattern)
             o == Dispatch(req.cb, Arrived(self, req, result_code, data), result_code)
             next == AsyncRun(o.inst, Reached(d, req, result_code), o.fx,
                              RestOf(req, pattern), data)
         IN  [inst |-> next.inst, dev |-> next.dev, fx |-> fx \o next.fx]

\* Synchronous transport: the effects fx of a function happen in order; when
\* it makes a request the transport completes it at once and the handler
\* runs, to its end, inside the transport call; the function then goes on
\* with the rest of fx.
RECURSIVE SyncRun(_, _, _, _, _)
SyncRun(self, d, fx, pattern, data) ==
    IF fx = <<>>
    THEN [inst |-> self, dev |-> d, fx |-> <<>>, pattern |-> pattern]
    ELSE IF IsRequest(Head(fx))
    THEN LET req == Head(fx)
             result_code == ResultOf(req, pattern)
             o == Dispatch(req.cb, Arrived(self, req, result_code, data), result_code)
             nested == SyncRun(o.inst, Reached(d, req, result_code), o.fx,
                               RestOf(req, pattern), data)
             after == SyncRun(nested.inst, nested.dev, Tail(fx), nested.pattern, data)
         IN  [inst |-> after.inst, dev |-> after.dev,
              fx |-> <<req>> \o nested.fx \o after.fx, pattern |-> after.pattern]
    ELSE LET after == SyncRun(self, d, Tail(fx), pattern, data)
         IN  [inst |-> after.inst, dev |-> after.dev,
              fx |-> <<Head(fx)>> \o after.fx, pattern |-> after.pattern]

\* A public call on the instance, run to the end of its sequence with the
\* synchronous transport; what the asynchronous transport makes of the same
\* call and the same results is kept beside it.
RunCall ==
    \E op \in SequenceOps, data \in ReadData :
        \E a \in ArgsOf(op), pattern \in Patterns(op) :
            LET r == Invoke(op, Self(a.self), a, NextUserData)
                called == IF a.self = NULL THEN inst ELSE r.inst
                sync == SyncRun(called, dev, r.fx, pattern, data)
                async == AsyncRun(called, dev, r.fx, pattern, data)
                starts == r.rc = BH1750_RESULT_CODE_OK
            IN  /\ alive
                /\ started < MaxRuns
                /\ ~(last.kind = "run" /\ last.rc # BH1750_RESULT_CODE_OK
                        /\ r.rc # BH1750_RESULT_CODE_OK)
                /\ inst' = sync.inst
                /\ alive' = alive
                /\ pending' = <<>>
                /\ dev' = sync.dev
                /\ started' = IF starts THEN started + 1 ELSE started
                /\ Account(sync.fx, IF starts /\ a.cb # NULL THEN {NextUserData} ELSE {})
                /\ last' = [kind |-> "run", op |-> op, seq |-> op,
                            given |-> Given(op, a, inst), rc |-> r.rc,
                            result_code |-> NoArg, args |-> a, fx |-> sync.fx,
                            self |-> inst, in_cb |-> FALSE, pattern |-> pattern,
                            async |-> async]

RunNext == RunCall

RunSpec == Init /\ [][RunNext]_vars

\* C30: for every public function that starts a sequence, every argument
\* list and every pattern of transport results, the call returns the same
\* code (OK when the call is accepted) with the synchronous transport as
\* with the asynchronous one, and the transport requests, the result codes
\* and user data given to the completion callback, the instance and the
\* device at the end of the sequence are the same.
C30_SyncAsyncEquivalent ==
    last.kind = "run" =>
        /\ Requests(last.fx) = Requests(last.async.fx)
        /\ Callbacks(last.fx) = Callbacks(last.async.fx)
        /\ Ends(last.fx) = Ends(last.async.fx)
        /\ Stores(last.fx) = Stores(last.async.fx)
        /\ inst = (IF last.args.self = NULL THEN last.self ELSE last.async.inst)
        /\ dev = last.async.dev
        /\ (ValidCall([last EXCEPT !.kind = "call"])
               /\ PreconditionMet(last.op, last.self)
               /\ ~last.self.is_seq_ongoing)
               => /\ last.rc = BH1750_RESULT_CODE_OK
                  /\ ~inst.is_seq_ongoing
                  /\ Len(Ends(last.fx)) = 1

\* bh1750_set_measurement_time(64) ran with the synchronous transport, both
\* writes succeeding: the two writes, then the callback with OK, all inside
\* the call, which returned OK.
C30_Witness ==
    /\ last.kind = "run"
    /\ last.op = "bh1750_set_measurement_time"
    /\ last.args.meas_time = 64
    /\ last.rc = BH1750_RESULT_CODE_OK
    /\ Len(Requests(last.fx)) = 2
    /\ Len(Callbacks(last.fx)) = 1
    /\ Callbacks(last.fx)[1].rc = BH1750_RESULT_CODE_OK
    /\ inst.meas_time = 64
    /\ ~inst.is_seq_ongoing

\* C31: in every reachable state self->cont_meas_ongoing implies
\* self->initialized and that the device has received a
\* start-continuous-measurement command; the flag turns true only in the
\* completion of a start-continuous-measurement write that succeeded.
C31_OngoingOnlyAfterStart ==
    /\ inst.cont_meas_ongoing => (inst.initialized /\ dev.started_mode # NoArg)
    /\ (~last.self.cont_meas_ongoing /\ inst.cont_meas_ongoing)
           => /\ last.kind = "done"
              /\ last.op = "start_continuous_measurement_part_2"
              /\ last.seq = "bh1750_start_continuous_measurement"
              /\ last.result_code = BH1750_I2C_RESULT_CODE_OK

\* The write of a start-continuous-measurement command succeeded and the
\* flag turned true on an initialized instance.
C31_Witness ==
    /\ last.kind = "done"
    /\ last.op = "start_continuous_measurement_part_2"
    /\ last.result_code = BH1750_I2C_RESULT_CODE_OK
    /\ ~last.self.cont_meas_ongoing
    /\ inst.cont_meas_ongoing
    /\ inst.initialized
    /\ dev.started_mode = inst.meas_mode

(***************************************************************************)
(* The register codec over every measurement time.  The instance has been  *)
(* initialized; bh1750_set_measurement_time is called with any measurement *)
(* time of the valid range and its two writes complete.                    *)
(***************************************************************************)
\* Measurement times set one after the other.
MaxSets == 1

CodecInit ==
    /\ inst = Initialized
    /\ alive = TRUE
    /\ pending = <<>>
    /\ dev = [mtreg |-> BH1750_DEFAULT_MEAS_TIME, started_mode |-> NoArg]
    /\ started = 1
    /\ ended = 1
    /\ owed = {}
    /\ stray = {}
    /\ freed = 0
    /\ last = [kind |-> "none", op |-> "none", seq |-> "none",
               given |-> Given("none", NoArgs, Initialized), rc |-> "none",
               result_code |-> NoArg, args |-> NoArgs, fx |-> <<>>,
               self |-> Initialized, in_cb |-> FALSE]

CallSetAnyMeasurementTime ==
    /\ started < 1 + MaxSets
    /\ \E t \in MeasTimes :
           /\ Call("bh1750_set_measurement_time", [PlainArgs EXCEPT !.meas_time = t],
                   bh1750_set_measurement_time(inst, t, "complete_cb", NextUserData))

CodecNext == CallSetAnyMeasurementTime \/ I2CWriteDone

CodecSpec == CodecInit /\ [][CodecNext]_vars

\* C32: for every measurement time t in 31..254, t >> 5 is in 0..7, t & 0x1F
\* is in 0..31 and (t >> 5) * 32 + (t & 0x1F) is t; bh1750_set_measurement_time(t)
\* writes the byte 0x40 + (t >> 5) and, when that write succeeded, the byte
\* 0x60 + (t & 0x1F) (0x40 and 0x7F for 31, 0x47 and 0x7E for 254, 0x41 and
\* 0x6C for 44); no range check of the two commands rejects, so the sequence
\* never ends with DRIVER_ERR, and after both writes the device holds t.
C32_RegisterCodec ==
    LET t == last.given.meas_time
        high3 == get_three_msb_of_meas_time(t)
        low5 == get_five_lsb_of_meas_time(t)
    IN  /\ (last.kind = "call" /\ last.rc = BH1750_RESULT_CODE_OK)
            => /\ is_valid_meas_time(t)
               /\ high3 \in 0..7
               /\ low5 \in 0..31
               /\ high3 * 32 + low5 = t
               /\ Len(last.fx) = 1
               /\ IssuedWrite(last, 64 + high3, "set_meas_time_part_2")
               /\ t = 31 => last.fx[1].data = 64
               /\ t = 254 => last.fx[1].data = 71
               /\ t = 44 => last.fx[1].data = 65
        /\ (last.kind = "done" /\ last.op = "set_meas_time_part_2"
               /\ last.result_code = BH1750_I2C_RESULT_CODE_OK)
            => /\ Len(last.fx) = 1
               /\ IssuedWrite(last, 96 + low5, "set_meas_time_part_3")
               /\ t = 31 => last.fx[1].data = 127
               /\ t = 254 => last.fx[1].data = 126
               /\ t = 44 => last.fx[1].data = 108
        /\ (last.kind = "done" /\ last.op = "set_meas_time_part_3"
               /\ last.result_code = BH1750_I2C_RESULT_CODE_OK)
            => (dev.mtreg = t /\ inst.meas_time = t)
        /\ last.kind = "done" => ~CompletedWith(last, BH1750_RESULT_CODE_DRIVER_ERR)

\* The second write of bh1750_set_measurement_time(254) was issued: 0x7E
\* after 0x47.
C32_Witness ==
    /\ last.kind = "done"
    /\ last.op = "set_meas_time_part_2"
    /\ last.given.meas_time = 254
    /\ last.result_code = BH1750_I2C_RESULT_CODE_OK
    /\ Len(pending) = 1
    /\ pending[1].data = 126
    /\ dev.mtreg = 7 * 32 + (BH1750_DEFAULT_MEAS_TIME % 32)

\* C33: an accepted bh1750_start_continuous_measurement writes the single
\* byte 0x10, 0x11 or 0x13 and an accepted bh1750_read_one_time_measurement
\* the single byte 0x20, 0x21 or 0x23 for H_RES, H_RES2 and L_RES; an
\* accepted bh1750_power_on writes 0x01, bh1750_power_down 0x00 and
\* bh1750_reset 0x07; the opcodes of two different modes differ in each
\* family.
C33_ModeToOpcode ==
    LET offset == CASE last.args.meas_mode = BH1750_MEAS_MODE_H_RES -> 0
                    [] last.args.meas_mode = BH1750_MEAS_MODE_H_RES2 -> 1
                    [] last.args.meas_mode = BH1750_MEAS_MODE_L_RES -> 3
                    [] OTHER -> NoArg
        accepted == last.kind = "call" /\ last.rc = BH1750_RESULT_CODE_OK
    IN  /\ (accepted /\ last.op = "bh1750_start_continuous_measurement")
            => (offset # NoArg
                /\ IssuedWrite(last, 16 + offset, "start_continuous_measurement_part_2"))
        /\ (accepted /\ last.op = "bh1750_read_one_time_measurement")
            => (offset # NoArg
                /\ IssuedWrite(last, 32 + offset, "read_one_time_meas_part_2"))
        /\ (accepted /\ last.op = "bh1750_power_on")
            => IssuedWrite(last, 1, "generic_i2c_complete_cb")
        /\ (accepted /\ last.op = "bh1750_power_down")
            => IssuedWrite(last, 0, "generic_i2c_complete_cb")
        /\ (accepted /\ last.op = "bh1750_reset")
            => IssuedWrite(last, 7, "generic_i2c_complete_cb")
        /\ \A m1, m2 \in ValidModes :
              m1 # m2 => /\ get_start_cont_meas_cmd_code(m1) # get_start_cont_meas_cmd_code(m2)
                         /\ get_one_time_meas_cmd_code(m1) # get_one_time_meas_cmd_code(m2)

\* bh1750_read_one_time_measurement in H_RES2 was accepted and wrote 0x21.
C33_Witness ==
    /\ last.kind = "call"
    /\ last.op = "bh1750_read_one_time_measurement"
    /\ last.rc = BH1750_RESULT_CODE_OK
    /\ last.args.meas_mode = BH1750_MEAS_MODE_H_RES2
    /\ Len(last.fx) = 1
    /\ last.fx[1].type = "i2c_write"
    /\ last.fx[1].data = 33

\* A public function other than bh1750_init has just been called with valid
\* arguments and its lifecycle precondition met on an initialized instance
\* whose sequence is in progress.
CalledWhileBusy ==
    /\ ValidCall(last)
    /\ last.op \in PublicOps \ {"bh1750_init"}
    /\ PreconditionMet(last.op, last.self)
    /\ last.self.initialized
    /\ last.self.is_seq_ongoing

\* The outstanding requests whose completion, with some result, invokes the
\* completion callback the instance holds.
CallingBack ==
    {k \in 1..Len(pending) :
        \E result_code \in I2CResults :
            Callbacks(Dispatch(pending[k].cb, inst, result_code).fx) # <<>>}

\* C34: a call of bh1750_power_on, bh1750_power_down, bh1750_reset,
\* bh1750_start_continuous_measurement, bh1750_read_one_time_measurement,
\* bh1750_read_continuous_measurement, bh1750_set_measurement_time or
\* bh1750_destroy, with valid arguments and its precondition met, on an
\* initialized instance with a sequence in progress returns BUSY, issues no
\* transport request, invokes no callback and leaves the instance as it
\* was; the sequence in flight then completes with one callback: no two
\* outstanding requests are each about to invoke its callback.
C34_BusyLeavesSequenceInFlight ==
    CalledWhileBusy
        => /\ last.rc = BH1750_RESULT_CODE_BUSY
           /\ Quiet(last)
           /\ inst = last.self
           /\ Cardinality(CallingBack) <= 1

\* C35: in every reachable state at most one transport request of the
\* instance (I2C write, I2C read or timer) is outstanding, whatever the
\* interleaving of public calls and completions, bh1750_init called again
\* before the first initialization has completed included.
C35_AtMostOneOutstanding == Len(pending) <= 1

\* C36: while a request of a bh1750_set_measurement_time sequence is
\* outstanding self->initialized is true, and every step of such a sequence
\* (the accepted call and each completion, the final one with its
\* self->initialized = true included) finds the instance initialized and
\* leaves it so: no such sequence turns an uninitialized instance into an
\* initialized one.
C36_SetMeasTimeNeverInitializes ==
    /\ \A k \in 1..Len(pending) :
          pending[k].seq = "bh1750_set_measurement_time" => inst.initialized
    /\ ((last.kind = "done" \/ (last.kind = "call" /\ last.rc = BH1750_RESULT_CODE_OK))
           /\ last.seq = "bh1750_set_measurement_time")
          => (last.self.initialized /\ inst.initialized)

\* The second write of a bh1750_set_measurement_time sequence succeeded:
\* set_meas_time_part_3 ran its self->initialized = true on an instance
\* that was initialized already.
C36_Witness ==
    /\ Completion(last, "bh1750_set_measurement_time", "set_meas_time_part_3")
    /\ last.result_code = BH1750_I2C_RESULT_CODE_OK
    /\ last.self.initialized
    /\ inst.initialized
    /\ inst.meas_time = last.given.meas_time

\* C37: no step (public call or completion: power-down, reset, one-time
\* measurement, a failed start-continuous-measurement, ...) turns
\* self->cont_meas_ongoing from true to false; on an instance with the flag
\* set a bh1750_set_measurement_time call with valid arguments returns
\* INVALID_USAGE, and a bh1750_read_continuous_measurement call with valid
\* arguments is never refused with INVALID_USAGE: it returns OK, or BUSY
\* while a sequence is in progress.
C37_OngoingNeverCleared ==
    /\ last.self.cont_meas_ongoing => inst.cont_meas_ongoing
    /\ (ValidCall(last) /\ last.self.cont_meas_ongoing
           /\ last.op = "bh1750_set_measurement_time")
          => (last.rc = BH1750_RESULT_CODE_INVALID_USAGE /\ Quiet(last))
    /\ (ValidCall(last) /\ last.self.cont_meas_ongoing
           /\ last.op = "bh1750_read_continuous_measurement")
          => last.rc = (IF last.self.is_seq_ongoing
                        THEN BH1750_RESULT_CODE_BUSY
                        ELSE BH1750_RESULT_CODE_OK)

\* A power-down sent after continuous measurement was started has completed
\* successfully and the flag is still set.
C37_Witness ==
    /\ Completion(last, "bh1750_power_down", "generic_i2c_complete_cb")
    /\ last.result_code = BH1750_I2C_RESULT_CODE_OK
    /\ last.self.cont_meas_ongoing
    /\ inst.cont_meas_ongoing
    /\ ~inst.is_seq_ongoing

(***************************************************************************)
(* Initialization retried.  The first bh1750_init has failed at its first, *)
(* second or third write and the callback was given IO_ERR; every call is  *)
(* made after that.                                                        *)
(***************************************************************************)
RetryInit ==
    \E k \in 1..3 :
        LET made == bh1750_create("inst_p", DefaultInitCfg, InstanceMemory).inst
            s1 == bh1750_init(made, "complete_cb", 1).inst
            s2 == init_part_2(s1, BH1750_I2C_RESULT_CODE_OK).inst
            s3 == set_meas_time_part_2(s2, BH1750_I2C_RESULT_CODE_OK).inst
            self == <<s1, s2, s3>>[k]
            handler == <<"init_part_2", "set_meas_time_part_2", "set_meas_time_part_3">>[k]
            r == Dispatch(handler, self, BH1750_I2C_RESULT_CODE_ERR)
        IN  /\ inst = r.inst
            /\ alive = TRUE
            /\ pending = <<>>
            /\ dev = [mtreg |-> BH1750_DEFAULT_MEAS_TIME, started_mode |-> NoArg]
            /\ started = 1
            /\ ended = 1
            /\ owed = {}
            /\ stray = {}
            /\ freed = 0
            /\ last = [kind |-> "done", op |-> handler, seq |-> "bh1750_init",
                       given |-> Given("bh1750_init", PlainArgs, made), rc |-> "none",
                       result_code |-> BH1750_I2C_RESULT_CODE_ERR, args |-> NoArgs,
                       fx |-> r.fx, self |-> self, in_cb |-> FALSE]

RetrySpec == RetryInit /\ [][Next]_vars

\* C38: after an initialization that failed at its first, second or third
\* write, a bh1750_init call with valid arguments made when no sequence is
\* in progress returns OK and issues the power-on write, whatever
\* self->meas_time the failed attempt left; a bh1750_init sequence whose
\* third write succeeds ends with OK (given to the callback),
\* self->initialized true and self->meas_time 69.
C38_InitRetry ==
    /\ (ValidCall(last) /\ last.op = "bh1750_init" /\ ~last.self.initialized
           /\ ~last.self.is_seq_ongoing)
          => /\ last.rc = BH1750_RESULT_CODE_OK
             /\ IssuedWrite(last, BH1750_POWER_ON_CMD, "init_part_2")
    /\ (Completion(last, "bh1750_init", "set_meas_time_part_3")
           /\ last.result_code = BH1750_I2C_RESULT_CODE_OK)
          => /\ CompletedWith(last, BH1750_RESULT_CODE_OK)
             /\ inst.initialized
             /\ inst.meas_time = BH1750_DEFAULT_MEAS_TIME

====
